---- MODULE Spec2Model ----
(***************************************************************************)
(* Model of the link classification code of the Link Inspector extension:  *)
(* UTMParser (tracking parameters, affiliate networks) and PopupDetector   *)
(* (popup triggers, target resolution, type labelling), AnchorInspector    *)
(* (in-page anchors, section info and its cache), of the history cache of  *)
(* the Browsing Analytics background worker, and of the extension's        *)
(* content script (overlay of badges, anchor highlighting, tooltip) with   *)
(* the settings and page data it exchanges with the background script.     *)
(*                                                                         *)
(* JavaScript strings are modelled as sequences of atoms.  An atom is a    *)
(* piece of text that the rules of the code never split: "amzn.to", "?",   *)
(* "utm_source".  String functions (toLowerCase, includes, RegExp.test,    *)
(* split) work atom by atom the way the originals work character by        *)
(* character.                                                              *)
(***************************************************************************)
EXTENDS Integers, Sequences, FiniteSets, TLC

VARIABLES
    link,       \* the anchor element under inspection
    links,      \* the a[href] elements of the page, in document order
    document,   \* the other elements of the page, in document order
    called,     \* the function called last, "none" before a call
    result,     \* what that call returned
    sectionCache,   \* AnchorInspector's Map from element to section info
    recorded,   \* what each classifier returned for the link since the
                \* last change of the DOM
    clock,          \* Date.now() of the background worker, in minutes
    cachedData,     \* the worker's cached analytics result, or null
    cacheTimestamp, \* when the cached result's fetch began
    cachedDays,     \* the number of days the cached result covers
    fetching,       \* the fetchHistoryData calls that await history results
    queries,        \* the number of history queries issued so far
    reload,         \* the number of queries issued when CLEAR_CACHE was
                    \* handled, until the next GET_ANALYTICS; -1 otherwise
    tooltipElement, \* TooltipManager's tooltip element: 1, or 0 for null
    tooltipClasses, \* the class list of the tooltip element
    isVisible,      \* TooltipManager's isVisible
    hideTimeout,    \* TooltipManager's hideTimeout: a timer id, or 0 for null
    timeouts,       \* the ids of the tooltip's timers that have yet to fire
    timeoutIds,     \* the number of timer ids handed out so far
    keptVisible,    \* a show() with content was the last call of show(),
                    \* hide() and destroy()
    settings,       \* the content script's settings
    overlayMode,    \* the content script's overlayMode
    overlayElements,    \* the content script's list of badge containers
    badgeContainers,    \* for each element of links, the badge containers
                        \* among its children, in document order
    getSettings,    \* the GET_SETTINGS request of the content script's
                    \* init: where it is, and the settings it carries back
    currentHighlightedSection,  \* the content script's highlighted element,
                                \* or 0 for null
    highlightClass,     \* the elements of the document that carry the class
                        \* 'lip-anchor-target-highlight'
    highlightTimeouts,  \* the number of pending timers that remove the
                        \* highlight
    startTimeouts,      \* for each hash, the number of pending timers that
                        \* highlight its target
    highlightEvents,    \* the number of hashchange and click events so far
    storage,        \* the settings in chrome.storage.local, or null
    storageOps,     \* the storage calls of the Link Inspector background
                    \* worker that have yet to complete, oldest first
    requests,       \* the UPDATE_SETTINGS messages of the popup on their way
                    \* to the background worker, oldest first
    broadcasts,     \* the SETTINGS_UPDATED messages on their way to the
                    \* content script, oldest first
    updates,        \* the number of UPDATE_SETTINGS messages sent so far
    activeTab,      \* the active tab of the current window: "none", or a
                    \* tab "withScript" or "withoutScript"
    pageData        \* the GET_PAGE_DATA request of an extension page: where
                    \* it is, and the responses its sender received

\* the cache of the background worker
cacheVars == <<cachedData, cacheTimestamp, cachedDays>>

\* the state of the background worker
workerVars == <<clock, cacheVars, fetching, queries, reload>>

\* the state of TooltipManager, and what is known of its calls
tooltipVars == <<tooltipElement, tooltipClasses, isVisible, hideTimeout, timeouts,
                 timeoutIds, keptVisible>>

\* the state of the content script
contentVars == <<settings, overlayMode, overlayElements, badgeContainers, getSettings>>

\* the state of the content script's anchor highlighting
highlightVars == <<currentHighlightedSection, highlightClass, highlightTimeouts,
                   startTimeouts, highlightEvents>>

\* the messages between popup, background worker and content script, and
\* the storage
exchangeVars == <<storage, storageOps, requests, broadcasts, updates, activeTab, pageData>>

\* the state of the scripts around the classifiers
scriptVars == <<tooltipVars, contentVars, highlightVars, exchangeVars>>

\* the state the classifiers of UTMParser and PopupDetector never touch
others == <<sectionCache, recorded, workerVars, scriptVars>>

vars == <<link, links, document, called, result, others>>

\* ------------------------------------------------------------------------
\* Bounds
\* ------------------------------------------------------------------------

\* largest number of query parameters of a generated URL
MaxParams == 2

\* largest number of history queries the background worker issues
MaxQueries == 2

\* the minutes the background worker's clock advances at most
MaxMinutes == 5

\* largest number of timers TooltipManager starts
MaxTimeouts == 4

\* largest number of hashchange and click events of the page
MaxHighlightEvents == 3

\* largest number of UPDATE_SETTINGS messages the popup sends
MaxUpdates == 2

\* ------------------------------------------------------------------------
\* JavaScript values and string primitives
\* ------------------------------------------------------------------------

null == [isNull |-> TRUE]

undefined == "undefined"

\* a Map without entries
EmptyMap == [k \in {} |-> null]

\* a day, in minutes
Day == 24 * 60

\* Date.now() when the background worker starts
StartOfClock == 40 * Day

\* the background worker as it starts: its cache unset, nothing in flight
WorkerIdle ==
    /\ clock = StartOfClock
    /\ cachedData = null
    /\ cacheTimestamp = 0
    /\ cachedDays = 0
    /\ fetching = {}
    /\ queries = 0
    /\ reload = -1

\* TooltipManager as the module is loaded
TooltipIdle ==
    /\ tooltipElement = 0
    /\ tooltipClasses = {}
    /\ isVisible = FALSE
    /\ hideTimeout = 0
    /\ timeouts = {}
    /\ timeoutIds = 0
    /\ keptVisible = FALSE

\* the settings of a fresh install, and of a content script as it starts
DEFAULT_SETTINGS ==
    [enabled |-> TRUE, showUtm |-> TRUE, showAnchors |-> TRUE, showPopups |-> TRUE]

\* a content script whose settings are loaded and whose overlay is off
ContentIdle ==
    /\ settings = DEFAULT_SETTINGS
    /\ overlayMode = FALSE
    /\ overlayElements = <<>>
    /\ badgeContainers = <<>>
    /\ getSettings = [at |-> "done", settings |-> DEFAULT_SETTINGS]

\* nothing highlighted, no timer pending
HighlightIdle ==
    /\ currentHighlightedSection = 0
    /\ highlightClass = {}
    /\ highlightTimeouts = 0
    /\ startTimeouts = EmptyMap
    /\ highlightEvents = 0

\* the settings of a fresh install stored, no message on its way
ExchangeIdle ==
    /\ storage = DEFAULT_SETTINGS
    /\ storageOps = <<>>
    /\ requests = <<>>
    /\ broadcasts = <<>>
    /\ updates = 0
    /\ activeTab = "withScript"
    /\ pageData = [at |-> "idle", responses |-> <<>>]

\* the scripts around the classifiers as they are loaded
ScriptIdle == TooltipIdle /\ ContentIdle /\ HighlightIdle /\ ExchangeIdle

\* no section info cached, nothing recorded, the worker and the scripts idle
RestIdle ==
    /\ sectionCache = EmptyMap
    /\ recorded = EmptyMap
    /\ WorkerIdle
    /\ ScriptIdle

\* String.prototype.toLowerCase, one atom
LowerOf(a) ==
    CASE a = "UTM_Source" -> "utm_source"
      [] a = "Constructor" -> "constructor"
      [] a = "HTTPS://" -> "https://"
      [] a = "AMZN.TO" -> "amzn.to"
      [] a = "TAG" -> "tag"
      [] a = "NoFollow" -> "nofollow"
      [] a = "Modal" -> "modal"
      [] a = "BUTTON" -> "button"
      [] a = "Subscribe" -> "subscribe"
      [] a = "Sign" -> "sign"
      [] a = "Your" -> "your"
      [] a = "Cart" -> "cart"
      [] a = "Menu" -> "menu"
      [] a = "SECTION" -> "section"
      [] a = "H2" -> "h2"
      [] a = "H5" -> "h5"
      [] a = "A" -> "a"
      [] a = "DIV" -> "div"
      [] OTHER -> a

toLowerCase(s) == [i \in 1..Len(s) |-> LowerOf(s[i])]

\* String.prototype.toUpperCase, for the first letters of the network names
UpperOf(a) ==
    CASE a = "a" -> "A"
      [] a = "s" -> "S"
      [] a = "c" -> "C"
      [] a = "r" -> "R"
      [] a = "i" -> "I"
      [] a = "p" -> "P"
      [] OTHER -> a

toUpperCase(s) == [i \in 1..Len(s) |-> UpperOf(s[i])]

\* String.prototype.includes: pat occurs in s as a contiguous piece
includes(s, pat) ==
    \E i \in 0..(Len(s) - Len(pat)) :
        \A j \in 1..Len(pat) : s[i + j] = pat[j]

\* index of the first occurrence of atom a in s, 0 when absent
IndexOf(s, a) ==
    IF \E i \in 1..Len(s) : s[i] = a
    THEN CHOOSE i \in 1..Len(s) : s[i] = a /\ \A j \in 1..(i - 1) : s[j] # a
    ELSE 0

\* atoms made of word characters only (\w)
WordAtoms ==
    {"com", "p", "a", "tag", "TAG", "utm_source", "UTM_Source", "gclid",
     "constructor", "Constructor", "sec"}

\* s split at every occurrence of atom sep (String.prototype.split)
RECURSIVE SplitOn(_, _)
SplitOn(s, sep) ==
    LET i == IndexOf(s, sep)
    IN  IF i = 0 THEN <<s>>
        ELSE <<SubSeq(s, 1, i - 1)>> \o SplitOn(SubSeq(s, i + 1, Len(s)), sep)

\* ------------------------------------------------------------------------
\* URL parsing (new URL(url, base), URLSearchParams)
\* ------------------------------------------------------------------------

SchemeAtoms == {"https://", "http://", "HTTPS://"}

\* window.location.origin of the inspected page
Origin == <<"https://", "example.com">>

\* the text of s before the first "#"
BeforeHash(s) ==
    LET h == IndexOf(s, "#")
    IN  IF h = 0 THEN s ELSE SubSeq(s, 1, h - 1)

\* the atoms of an absolute URL between the scheme and the first "/", "?", "#"
HostOf(s) ==
    LET rest == SubSeq(s, 2, Len(s))
        stop == {i \in 1..Len(rest) : rest[i] \in {"/", "?", "#"}}
        last == IF stop = {} THEN Len(rest)
                ELSE (CHOOSE i \in stop : \A j \in stop : i <= j) - 1
    IN  SubSeq(rest, 1, last)

\* the URL parser rejects an absolute URL with an empty host or an unclosed
\* IPv6 literal; a relative URL is resolved against the (valid) origin
URLParses(s) ==
    IF Len(s) > 0 /\ s[1] \in SchemeAtoms
    THEN HostOf(s) # <<>> /\ ~ \E i \in 1..Len(HostOf(s)) : HostOf(s)[i] = "["
    ELSE TRUE

\* the query string: the text between the first "?" and the first "#"
QueryOf(s) ==
    LET t == BeforeHash(s)
        q == IndexOf(t, "?")
    IN  IF q = 0 THEN <<>> ELSE SubSeq(t, q + 1, Len(t))

\* one "key=value" piece of the query as a name-value pair
PairOf(piece) ==
    LET e == IndexOf(piece, "=")
    IN  IF e = 0 THEN [key |-> piece, value |-> <<>>]
        ELSE [key |-> SubSeq(piece, 1, e - 1),
              value |-> SubSeq(piece, e + 1, Len(piece))]

\* urlObj.searchParams: the pairs of the non-empty "&"-separated pieces, in
\* their order in the URL
searchParams(s) ==
    LET pieces == SplitOn(QueryOf(s), "&")
        kept == SelectSeq(pieces, LAMBDA p : p # <<>>)
    IN  [i \in 1..Len(kept) |-> PairOf(kept[i])]

\* HTMLAnchorElement.href: the serialised absolute URL (scheme and host in
\* lower case, a relative reference resolved against the page), or the
\* attribute text when it does not parse
hrefOf(s) ==
    IF ~ URLParses(s) THEN s
    ELSE IF Len(s) > 0 /\ s[1] \in SchemeAtoms
         THEN LET n == 1 + Len(HostOf(s))
              IN  toLowerCase(SubSeq(s, 1, n)) \o SubSeq(s, n + 1, Len(s))
         ELSE Origin \o s

\* ------------------------------------------------------------------------
\* DOM elements: a function from the names of the attributes the element
\* carries to their text
\* ------------------------------------------------------------------------

hasAttribute(el, a) == a \in DOMAIN el

\* el.getAttribute(a) || ''
getAttributeOrEmpty(el, a) == IF a \in DOMAIN el THEN el[a] ELSE <<>>

\* ------------------------------------------------------------------------
\* UTMParser: tables
\* ------------------------------------------------------------------------

Def(n, m, c) == [name |-> n, meaning |-> m, category |-> c]

PARAM_DEFINITIONS ==
    [k \in {"utm_source", "utm_medium", "utm_campaign", "utm_term",
            "utm_content", "utm_id", "gclid", "gclsrc", "fbclid",
            "fb_action_ids", "msclkid", "ref", "source", "campaign",
            "affiliate_id", "aff_id", "promo", "cid", "mc_cid", "mc_eid"} |->
        CASE k = "utm_source" -> Def("UTM Source", "Traffic source - which platform sent the visitor", "utm")
          [] k = "utm_medium" -> Def("UTM Medium", "Marketing medium - type of traffic (cpc, email, social, etc.)", "utm")
          [] k = "utm_campaign" -> Def("UTM Campaign", "Campaign name - identifies specific marketing campaign", "utm")
          [] k = "utm_term" -> Def("UTM Term", "Paid search keyword - the keyword that triggered the ad", "utm")
          [] k = "utm_content" -> Def("UTM Content", "Content variant - differentiates similar links/ads", "utm")
          [] k = "utm_id" -> Def("UTM ID", "Campaign ID - unique identifier for the campaign", "utm")
          [] k = "gclid" -> Def("Google Click ID", "Google Ads click identifier for conversion tracking", "ads")
          [] k = "gclsrc" -> Def("Google Click Source", "Google Ads click source type", "ads")
          [] k = "fbclid" -> Def("Facebook Click ID", "Facebook/Meta click identifier for conversion tracking", "ads")
          [] k = "fb_action_ids" -> Def("Facebook Action IDs", "Facebook action tracking identifiers", "ads")
          [] k = "msclkid" -> Def("Microsoft Click ID", "Microsoft/Bing Ads click identifier", "ads")
          [] k = "ref" -> Def("Referrer", "Referral source or affiliate identifier", "tracking")
          [] k = "source" -> Def("Source", "Generic traffic source identifier", "tracking")
          [] k = "campaign" -> Def("Campaign", "Generic campaign identifier", "tracking")
          [] k = "affiliate_id" -> Def("Affiliate ID", "Affiliate partner identifier", "tracking")
          [] k = "aff_id" -> Def("Affiliate ID", "Affiliate partner identifier (shorthand)", "tracking")
          [] k = "promo" -> Def("Promo Code", "Promotional campaign code", "tracking")
          [] k = "cid" -> Def("Client/Campaign ID", "Client or campaign identifier", "tracking")
          [] k = "mc_cid" -> Def("Mailchimp Campaign ID", "Mailchimp email campaign identifier", "email")
          [] k = "mc_eid" -> Def("Mailchimp Email ID", "Mailchimp subscriber email identifier", "email")]

\* what an object literal inherits from Object.prototype under a lower-case
\* name: obj.constructor is the function Object (whose name is "Object"),
\* obj.__proto__ is Object.prototype itself; both are truthy
ObjectPrototype ==
    [k \in {"constructor", "__proto__"} |->
        IF k = "constructor" THEN Def("Object", undefined, undefined)
        ELSE Def(undefined, undefined, undefined)]

NoProperty == [isUndefined |-> TRUE]

\* whether obj[key] is truthy, for an object literal whose own values are
\* all truthy
HasTruthyProperty(obj, key) ==
    /\ Len(key) = 1
    /\ key[1] \in DOMAIN obj \cup DOMAIN ObjectPrototype

\* obj[key] for an object literal: an own property, else an inherited one,
\* else undefined
PropertyOf(obj, key) ==
    IF Len(key) = 1 /\ key[1] \in DOMAIN obj THEN obj[key[1]]
    ELSE IF Len(key) = 1 /\ key[1] \in DOMAIN ObjectPrototype
         THEN ObjectPrototype[key[1]]
         ELSE NoProperty

Lit(s) == [kind |-> "literal", text |-> s]

\* each network name is written as <<first letter, rest>>
AFFILIATE_PATTERNS ==
    << [network |-> <<"a", "mazon">>,
        patterns |-> << [kind |-> "amazonTag", text |-> <<>>], Lit(<<"amzn.to">>) >>],
       [network |-> <<"s", "hareasale">>,
        patterns |-> << Lit(<<"shareasale.com">>) >>],
       [network |-> <<"c", "j">>,
        patterns |-> << Lit(<<"anrdoezrs.net">>), Lit(<<"dpbolvw.net">>),
                        Lit(<<"jdoqocy.com">>), Lit(<<"kqzyfj.com">>),
                        Lit(<<"tkqlhce.com">>) >>],
       [network |-> <<"r", "akuten">>,
        patterns |-> << Lit(<<"linksynergy.com">>),
                        Lit(<<"click.", "linksynergy.com">>) >>],
       [network |-> <<"i", "mpact">>,
        patterns |-> << Lit(<<"impactradius.com">>), Lit(<<"7eer.net">>) >>],
       [network |-> <<"a", "win">>,
        patterns |-> << Lit(<<"awin1.com">>) >>],
       [network |-> <<"p", "artnerize">>,
        patterns |-> << Lit(<<"prf.hn">>) >>] >>

REL_MEANINGS ==
    [k \in {"nofollow", "sponsored", "ugc", "noopener", "noreferrer", "external"} |->
        CASE k = "nofollow" -> "Search engines should not follow this link"
          [] k = "sponsored" -> "This is a paid/sponsored link"
          [] k = "ugc" -> "User-generated content link"
          [] k = "noopener" -> "Prevents new page from accessing window.opener"
          [] k = "noreferrer" -> "Prevents sending referrer header"
          [] k = "external" -> "Links to external site"]

\* /amazon\.\w+\/.*[?&]tag=/i on the lower-cased text: "amazon.", one or
\* more word atoms, "/", anything, "?" or "&", "tag", "="
AmazonTagTest(t) ==
    \E i \in 1..Len(t) : \E j \in (i + 2)..Len(t) : \E k \in (j + 1)..(Len(t) - 2) :
        /\ t[i] = "amazon."
        /\ \A w \in (i + 1)..(j - 1) : t[w] \in WordAtoms
        /\ t[j] = "/"
        /\ t[k] \in {"?", "&"}
        /\ t[k + 1] = "tag"
        /\ t[k + 2] = "="

\* the patterns without their i flag
RegExpTest_caseSensitive(pattern, s) ==
    IF pattern.kind = "amazonTag" THEN AmazonTagTest(s)
    ELSE includes(s, pattern.text)

\* pattern.test(url) for the case-insensitive patterns of the table (no g
\* or y flag: test keeps no position between calls)
RegExpTest(pattern, s) ==
    IF pattern.kind = "amazonTag" THEN AmazonTagTest(toLowerCase(s))
    ELSE includes(toLowerCase(s), pattern.text)

\* ------------------------------------------------------------------------
\* UTMParser: functions
\* ------------------------------------------------------------------------

\* network.charAt(0).toUpperCase() + network.slice(1)
TitleCase(network) ==
    toUpperCase(SubSeq(network, 1, 1)) \o SubSeq(network, 2, Len(network))

\* the loop without its early return: the last matching network wins
RECURSIVE detectAffiliateFrom_lastWins(_, _)
detectAffiliateFrom_lastWins(u, n) ==
    IF n > Len(AFFILIATE_PATTERNS) THEN null
    ELSE LET entry == AFFILIATE_PATTERNS[n]
             later == detectAffiliateFrom_lastWins(u, n + 1)
         IN  IF later = null /\ \E p \in 1..Len(entry.patterns) : RegExpTest(entry.patterns[p], u)
             THEN [isAffiliate |-> TRUE, network |-> TitleCase(entry.network)]
             ELSE later

\* the loop of detectAffiliate from the n-th network of the table on
RECURSIVE detectAffiliateFrom(_, _)
detectAffiliateFrom(u, n) ==
    IF n > Len(AFFILIATE_PATTERNS) THEN null
    ELSE LET entry == AFFILIATE_PATTERNS[n]
         IN  IF \E p \in 1..Len(entry.patterns) : RegExpTest(entry.patterns[p], u)
             THEN [isAffiliate |-> TRUE, network |-> TitleCase(entry.network)]
             ELSE detectAffiliateFrom(u, n + 1)

\* detectAffiliate returning the last matching network
detectAffiliate_lastWins(u) == detectAffiliateFrom_lastWins(u, 1)

detectAffiliate(u) == detectAffiliateFrom(u, 1)

analyzeRelAttribute(el) ==
    LET rel == getAttributeOrEmpty(el, "rel")
        relValues == SelectSeq(SplitOn(toLowerCase(rel), " "), LAMBDA v : v # <<>>)
        known == SelectSeq(relValues, LAMBDA v : HasTruthyProperty(REL_MEANINGS, v))
        has(v) == \E i \in 1..Len(relValues) : relValues[i] = <<v>>
    IN  [raw |-> rel,
         values |-> relValues,
         meanings |-> [i \in 1..Len(known) |->
                          [value |-> known[i], meaning |-> PropertyOf(REL_MEANINGS, known[i])]],
         hasNofollow |-> has("nofollow"),
         hasSponsored |-> has("sponsored"),
         hasUgc |-> has("ugc")]

EmptyObject == [c \in {} |-> <<>>]

\* the verdict parse returns from its catch block
EmptyVerdict ==
    [hasTracking |-> FALSE, parameters |-> <<>>, categories |-> EmptyObject,
     affiliate |-> null, rel |-> null]

\* one step of the params.forEach callback of parse
parseStep(acc, pair) ==
    LET keyLower == toLowerCase(pair.key)
        definition == PropertyOf(PARAM_DEFINITIONS, keyLower)
    IN  IF HasTruthyProperty(PARAM_DEFINITIONS, keyLower)
        THEN LET param == [key |-> pair.key, value |-> pair.value,
                           name |-> definition.name,
                           meaning |-> definition.meaning,
                           category |-> definition.category]
                 cat == definition.category
                 old == IF cat \in DOMAIN acc.categories
                        THEN acc.categories[cat] ELSE <<>>
             IN  [acc EXCEPT !.hasTracking = TRUE,
                             !.parameters = Append(acc.parameters, param),
                             !.categories =
                                 [c \in DOMAIN acc.categories \cup {cat} |->
                                     IF c = cat THEN Append(old, param)
                                     ELSE acc.categories[c]]]
        ELSE acc

RECURSIVE parseLoop(_, _, _)
parseLoop(acc, params, i) ==
    IF i > Len(params) THEN acc
    ELSE parseLoop(parseStep(acc, params[i]), params, i + 1)

\* parse with the affiliate lookup done before the URL is parsed and kept in
\* the verdict of the catch block
parse_affiliateBeforeTry(u, linkElement) ==
    IF ~ URLParses(u) THEN [EmptyVerdict EXCEPT !.affiliate = detectAffiliate(u)]
    ELSE parseLoop([hasTracking |-> FALSE, parameters |-> <<>>,
                    categories |-> EmptyObject,
                    affiliate |-> detectAffiliate(u),
                    rel |-> IF linkElement = null THEN null
                            ELSE analyzeRelAttribute(linkElement)],
                   searchParams(u), 1)

\* parse(url, linkElement); linkElement is null or an element
parse(u, linkElement) ==
    IF ~ URLParses(u) THEN EmptyVerdict
    ELSE parseLoop([hasTracking |-> FALSE, parameters |-> <<>>,
                    categories |-> EmptyObject,
                    affiliate |-> detectAffiliate(u),
                    rel |-> IF linkElement = null THEN null
                            ELSE analyzeRelAttribute(linkElement)],
                   searchParams(u), 1)

hasTrackingParams(u) ==
    IF ~ URLParses(u) THEN FALSE
    ELSE LET params == searchParams(u)
         IN  \E i \in 1..Len(params) :
                 HasTruthyProperty(PARAM_DEFINITIONS, toLowerCase(params[i].key))

\* scanPage over the a[href] elements of the page, in document order; each
\* entry names the element by its position
RECURSIVE scanPageFrom(_, _)
scanPageFrom(page, i) ==
    IF i > Len(page) THEN <<>>
    ELSE LET parsed == parse(hrefOf(page[i]["href"]), page[i])
             rest == scanPageFrom(page, i + 1)
         IN  IF parsed.hasTracking \/ parsed.affiliate # null
             THEN <<[element |-> i, href |-> hrefOf(page[i]["href"]), parsed |-> parsed]>> \o rest
             ELSE rest

scanPage(page) == scanPageFrom(page, 1)

\* ------------------------------------------------------------------------
\* Inputs of the UTMParser specification
\* ------------------------------------------------------------------------

\* what precedes the query string in the generated URLs: plain, Amazon short
\* link (lower and upper case), Amazon shop (affiliate only with a tag
\* parameter), two networks at once, a host the URL parser rejects, a
\* relative reference, and a URL whose fragment starts before any "?"
UrlBases ==
    { <<"https://", "example.com", "/", "p">>,
      <<"https://", "amzn.to", "/", "p">>,
      <<"HTTPS://", "AMZN.TO", "/", "p">>,
      <<"https://", "www.", "amazon.", "com", "/", "p">>,
      <<"https://", "shareasale.com", "/", "awin1.com">>,
      <<"http://", "[">>,
      <<"/", "p">>,
      <<"https://", "example.com", "/", "p", "#", "sec">> }

ParamKeys == {"utm_source", "UTM_Source", "gclid", "tag", "constructor"}

ParamValues == {"a", "amzn.to"}

ParamLists ==
    UNION { [1..n -> ParamKeys \X ParamValues] : n \in 0..MaxParams }

\* the text "?k=v&k=v" of a parameter list
RECURSIVE QueryText(_, _)
QueryText(ps, i) ==
    IF i > Len(ps) THEN <<>>
    ELSE <<IF i = 1 THEN "?" ELSE "&", ps[i][1], "=", ps[i][2]>> \o QueryText(ps, i + 1)

Urls == { b \o QueryText(ps, 1) : b \in UrlBases, ps \in ParamLists }

RelTexts == { <<"NoFollow", " ", "sponsored">> }

\* an anchor with an href and possibly a rel attribute
Anchor(u) == [a \in {"href"} |-> u]

AnchorRel(u, r) == [a \in {"href", "rel"} |-> IF a = "href" THEN u ELSE r]

\* the other anchors a scanned page can hold: one that is not reported and
\* one that is
PlainAnchor == Anchor(<<"https://", "example.com", "/", "p">>)

TrackedAnchor ==
    AnchorRel(<<"/", "p", "?", "gclid", "=", "a">>, <<"NoFollow", " ", "sponsored">>)

\* ------------------------------------------------------------------------
\* The UTMParser specification: a link of a page, and the calls on it
\* ------------------------------------------------------------------------

InitUTM ==
    /\ link \in { Anchor(u) : u \in Urls } \cup
                { AnchorRel(u, r) : u \in Urls, r \in RelTexts }
    /\ links \in { <<link>>, <<TrackedAnchor, link>>, <<link, PlainAnchor>> }
    /\ document = <<>>
    /\ called = "none"
    /\ result = null
    /\ RestIdle

\* UTMParser.parse(url) on the text of the href attribute
UTMParser_parse ==
    /\ called = "none"
    /\ called' = "parse"
    /\ result' = parse(link["href"], null)
    /\ UNCHANGED <<link, links, document, others>>

\* UTMParser.parse(link.href, link), as analyzeLink calls it
UTMParser_parseLink ==
    /\ called = "none"
    /\ called' = "parseLink"
    /\ result' = parse(hrefOf(link["href"]), link)
    /\ UNCHANGED <<link, links, document, others>>

UTMParser_hasTrackingParams ==
    /\ called = "none"
    /\ called' = "hasTrackingParams"
    /\ result' = hasTrackingParams(link["href"])
    /\ UNCHANGED <<link, links, document, others>>

UTMParser_detectAffiliate ==
    /\ called = "none"
    /\ called' = "detectAffiliate"
    /\ result' = detectAffiliate(link["href"])
    /\ UNCHANGED <<link, links, document, others>>

UTMParser_scanPage ==
    /\ called = "none"
    /\ called' = "scanPage"
    /\ result' = scanPage(links)
    /\ UNCHANGED <<link, links, document, others>>

\* the caller takes the result; the next call starts
Return ==
    /\ called # "none"
    /\ called' = "none"
    /\ result' = null
    /\ UNCHANGED <<link, links, document, others>>

NextUTM ==
    \/ UTMParser_parse
    \/ UTMParser_parseLink
    \/ UTMParser_hasTrackingParams
    \/ UTMParser_detectAffiliate
    \/ UTMParser_scanPage
    \/ Return

SpecUTM == InitUTM /\ [][NextUTM]_vars

\* ------------------------------------------------------------------------
\* Claims about UTMParser
\* ------------------------------------------------------------------------

\* the URL text the last parse call was given
ParseArg == IF called = "parseLink" THEN hrefOf(link["href"]) ELSE link["href"]

ParseCalled == called \in {"parse", "parseLink"}

\* a URL of the generated set that the URL parser rejects
Unparseable(u) == Len(u) >= 2 /\ u[1] \in SchemeAtoms /\ u[2] = "["

\* the lower-cased key is one of the keys written in PARAM_DEFINITIONS
InTable(key) ==
    /\ Len(key) = 1
    /\ LowerOf(key[1]) \in DOMAIN PARAM_DEFINITIONS

\* the match the table prescribes for a query parameter
MatchOf(pair) ==
    LET d == PARAM_DEFINITIONS[LowerOf(pair.key[1])]
    IN  [key |-> pair.key, value |-> pair.value, name |-> d.name,
         meaning |-> d.meaning, category |-> d.category]

KeyValue(m) == [key |-> m.key, value |-> m.value]

\* C1: parse emits a match for a query parameter of a parseable URL if and
\* only if the parameter's lower-cased key is a key of PARAM_DEFINITIONS;
\* the match carries the original key, the value and that definition's name,
\* meaning and category; parameters with other keys produce no match.
C1_MatchIffKeyInTable ==
    (ParseCalled /\ URLParses(ParseArg)) =>
        LET params == searchParams(ParseArg)
        IN  /\ \A i \in 1..Len(params) :
                   InTable(params[i].key) =>
                       \E j \in 1..Len(result.parameters) :
                           result.parameters[j] = MatchOf(params[i])
            /\ \A j \in 1..Len(result.parameters) :
                   \E i \in 1..Len(params) :
                       /\ KeyValue(result.parameters[j]) = params[i]
                       /\ InTable(params[i].key)

\* C2: result.parameters is exactly the subsequence of the URL's query
\* parameters, in URL order and with duplicates kept, whose lower-cased key
\* is in PARAM_DEFINITIONS.
C2_ParametersAreTableSubsequence ==
    (ParseCalled /\ URLParses(ParseArg)) =>
        LET expected == SelectSeq(searchParams(ParseArg), LAMBDA p : InTable(p.key))
        IN  [j \in 1..Len(result.parameters) |-> KeyValue(result.parameters[j])]
                = expected

\* C3: when the URL fails to parse, parse returns the empty verdict
\* (hasTracking false, no parameters, no categories, affiliate and rel null)
\* and hasTrackingParams returns false.
C3_UnparseableGivesEmptyVerdict ==
    /\ (ParseCalled /\ Unparseable(ParseArg)) =>
           /\ result.hasTracking = FALSE
           /\ result.parameters = <<>>
           /\ DOMAIN result.categories = {}
           /\ result.affiliate = null
           /\ result.rel = null
    /\ (called = "hasTrackingParams" /\ Unparseable(link["href"])) =>
           result = FALSE

\* C3 witness: parse was called with an element carrying rel, on an
\* unparseable URL that has a tracking parameter and an affiliate pattern
C3_Witness ==
    /\ called = "parseLink"
    /\ Unparseable(link["href"])
    /\ "rel" \in DOMAIN link
    /\ \E i \in 1..Len(link["href"]) : link["href"][i] = "utm_source"
    /\ \E i \in 1..Len(link["href"]) : link["href"][i] = "amzn.to"
    /\ result.affiliate = null

\* the networks, by position in AFFILIATE_PATTERNS, that have a pattern
\* matching u
MatchingNetworks(u) ==
    { n \in 1..Len(AFFILIATE_PATTERNS) :
        \E p \in 1..Len(AFFILIATE_PATTERNS[n].patterns) :
            RegExpTest(AFFILIATE_PATTERNS[n].patterns[p], u) }

\* the display names in declaration order
NetworkNames ==
    << <<"A", "mazon">>, <<"S", "hareasale">>, <<"C", "j">>, <<"R", "akuten">>,
       <<"I", "mpact">>, <<"A", "win">>, <<"P", "artnerize">> >>

\* C4: detectAffiliate returns the title-cased name of the first network,
\* in declaration order, that has a pattern matching the URL in any letter
\* case, one network only, and null when no network matches.
C4_FirstNetworkInDeclarationOrder ==
    called = "detectAffiliate" =>
        LET u == link["href"]
            m == MatchingNetworks(toLowerCase(u))
        IN  IF m = {} THEN result = null
            ELSE result = [isAffiliate |-> TRUE,
                           network |-> NetworkNames[CHOOSE n \in m : \A k \in m : n <= k]]

\* C4 witness: a URL matching two networks, neither the first of the table
C4_Witness ==
    /\ called = "detectAffiliate"
    /\ MatchingNetworks(link["href"]) = {2, 6}
    /\ result = [isAffiliate |-> TRUE, network |-> <<"S", "hareasale">>]

\* a URL that matches one of the two Amazon patterns
IsAmazonUrl(u) ==
    \/ \E i \in 1..Len(u) : u[i] \in {"amzn.to", "AMZN.TO"}
    \/ AmazonTagTest(toLowerCase(u))

\* C5: for every URL matching an Amazon pattern, in any letter case, the
\* affiliate matcher returns the network name "Amazon", whatever other
\* affiliate patterns the URL matches.
C5_AmazonPatternGivesAmazon ==
    /\ (called = "detectAffiliate" /\ IsAmazonUrl(link["href"])) =>
           result = [isAffiliate |-> TRUE, network |-> <<"A", "mazon">>]
    /\ (ParseCalled /\ ~ Unparseable(ParseArg) /\ IsAmazonUrl(ParseArg)) =>
           result.affiliate = [isAffiliate |-> TRUE, network |-> <<"A", "mazon">>]

\* C5 witness: an upper-case Amazon short link, and a Shareasale URL that
\* carries amzn.to in a parameter value
C5_Witness ==
    /\ called = "detectAffiliate"
    /\ \/ link["href"][2] = "AMZN.TO"
       \/ /\ link["href"][2] = "shareasale.com"
          /\ \E i \in 3..Len(link["href"]) : link["href"][i] = "amzn.to"
    /\ result = [isAffiliate |-> TRUE, network |-> <<"A", "mazon">>]

\* no query parameter of u has a lower-cased key in PARAM_DEFINITIONS
NoTableKey(u) ==
    \A i \in 1..Len(searchParams(u)) : ~ InTable(searchParams(u)[i].key)

\* C6: for a URL with no query parameter whose lower-cased key is in
\* PARAM_DEFINITIONS and that matches no affiliate pattern, parse returns
\* parameters empty, hasTracking false and affiliate null, and scanPage does
\* not include the link.
C6_NothingRecognisedGivesNegativeVerdict ==
    /\ (ParseCalled /\ NoTableKey(ParseArg) /\ MatchingNetworks(ParseArg) = {}) =>
           /\ result.parameters = <<>>
           /\ result.hasTracking = FALSE
           /\ result.affiliate = null
    /\ called = "scanPage" =>
           \A i \in 1..Len(links) :
               LET u == hrefOf(links[i]["href"])
               IN  (NoTableKey(u) /\ MatchingNetworks(u) = {}) =>
                       ~ \E j \in 1..Len(result) : result[j].element = i

\* ------------------------------------------------------------------------
\* DOM lookups.  An element of the document is named by its position in
\* the document; 0 is null.
\* ------------------------------------------------------------------------

Returned(v) == [threw |-> FALSE, value |-> v]

\* the call ended with an exception
Threw == [threw |-> TRUE, value |-> 0]

\* the first of a set of positions in document order, 0 when there is none
FirstOf(positions) ==
    IF positions = {} THEN 0
    ELSE CHOOSE i \in positions : \A j \in positions : i <= j

getElementById(doc, id) ==
    FirstOf({ i \in 1..Len(doc) :
                id # <<>> /\ hasAttribute(doc[i], "id") /\ doc[i]["id"] = id })

\* el.classList contains the class name c
HasClass(el, c) ==
    LET names == SplitOn(getAttributeOrEmpty(el, "class"), " ")
    IN  \E i \in 1..Len(names) : names[i] = c

\* document.querySelector(sel) for an id selector "#ident" and a class
\* selector ".ident"; "#" and "." alone are not selectors and make
\* querySelector throw a SyntaxError; any other text is a type selector,
\* and the modelled documents hold no element of such a type
querySelector(doc, sel) ==
    IF sel[1] \in {"#", "."} /\ Len(sel) = 1 THEN Threw
    ELSE IF sel[1] = "#"
         THEN Returned(getElementById(doc, SubSeq(sel, 2, Len(sel))))
    ELSE IF sel[1] = "."
         THEN Returned(FirstOf({ i \in 1..Len(doc) :
                                    HasClass(doc[i], SubSeq(sel, 2, Len(sel))) }))
    ELSE Returned(0)

\* document.querySelector(`[data-popup-id="${v}"]`)
queryDataPopupId(doc, v) ==
    FirstOf({ i \in 1..Len(doc) :
                hasAttribute(doc[i], "data-popup-id") /\ doc[i]["data-popup-id"] = v })

\* ------------------------------------------------------------------------
\* PopupDetector: tables
\* ------------------------------------------------------------------------

POPUP_PATTERNS_id ==
    << <<"popup">>, <<"modal">>, <<"dialog">>, <<"drawer">>, <<"offcanvas">>,
       <<"overlay">>, <<"lightbox">>, <<"slideover">>, <<"sheet">> >>

POPUP_PATTERNS_dataAttr ==
    << "data-popup", "data-modal", "data-toggle", "data-bs-toggle",
       "data-dialog", "data-drawer", "data-overlay", "data-fancybox",
       "data-lightbox", "data-micromodal-trigger" >>

POPUP_PATTERNS_classes ==
    << <<"popup">>, <<"modal">>, <<"dialog">>, <<"drawer">>, <<"offcanvas">>,
       <<"overlay">>, <<"lightbox">>, <<"fancybox">> >>

TYPE_KEYWORDS ==
    << [label |-> "modal", keywords |-> << <<"modal">>, <<"dialog">>, <<"lightbox">> >>],
       [label |-> "popup", keywords |-> << <<"popup">>, <<"popover">>, <<"tooltip">> >>],
       [label |-> "drawer", keywords |-> << <<"drawer">>, <<"slideover">>, <<"sidebar">>, <<"offcanvas">> >>],
       [label |-> "sheet", keywords |-> << <<"sheet">>, <<"bottom", "-", "sheet">>, <<"action", "-", "sheet">> >>],
       [label |-> "overlay", keywords |-> << <<"overlay">>, <<"backdrop">> >>] >>

\* some pattern of the list matches the text, in any letter case
AnyPatternTest(patterns, text) ==
    \E p \in 1..Len(patterns) : includes(toLowerCase(text), patterns[p])

\* ------------------------------------------------------------------------
\* PopupDetector: trigger test, target resolution, type
\* ------------------------------------------------------------------------

\* the trigger test with the role check left out of the fourth rule
isPopupTrigger_noRoleCheck(el) ==
    \/ AnyPatternTest(POPUP_PATTERNS_id, getAttributeOrEmpty(el, "href"))
    \/ \E a \in 1..Len(POPUP_PATTERNS_dataAttr) : hasAttribute(el, POPUP_PATTERNS_dataAttr[a])
    \/ AnyPatternTest(POPUP_PATTERNS_classes, getAttributeOrEmpty(el, "class"))
    \/ AnyPatternTest(POPUP_PATTERNS_id, getAttributeOrEmpty(el, "aria-controls"))

isPopupTrigger(el) ==
    LET href == getAttributeOrEmpty(el, "href")
    IN  IF AnyPatternTest(POPUP_PATTERNS_id, href) THEN TRUE
        ELSE IF \E a \in 1..Len(POPUP_PATTERNS_dataAttr) :
                    hasAttribute(el, POPUP_PATTERNS_dataAttr[a]) THEN TRUE
        ELSE IF AnyPatternTest(POPUP_PATTERNS_classes, getAttributeOrEmpty(el, "class")) THEN TRUE
        ELSE IF hasAttribute(el, "role") /\ el["role"] = <<"button">>
             THEN LET ariaControls == getAttributeOrEmpty(el, "aria-controls")
                  IN  ariaControls # <<>> /\ AnyPatternTest(POPUP_PATTERNS_id, ariaControls)
        ELSE FALSE

\* a || b on two attribute texts (the empty text is falsy)
OrElse(a, b) == IF a # <<>> THEN a ELSE b

\* the fourth strategy of findPopupElement: data-popup, else data-modal
findByDataPopup(el, doc) ==
    LET dataPopup == OrElse(getAttributeOrEmpty(el, "data-popup"),
                            getAttributeOrEmpty(el, "data-modal"))
    IN  IF dataPopup # <<>>
        THEN LET byId == getElementById(doc, dataPopup)
             IN  Returned(IF byId # 0 THEN byId ELSE queryDataPopupId(doc, dataPopup))
        ELSE Returned(0)

\* the third strategy and what follows it: data-target, else data-bs-target
findByDataTarget(el, doc) ==
    LET dataTarget == OrElse(getAttributeOrEmpty(el, "data-target"),
                             getAttributeOrEmpty(el, "data-bs-target"))
        found == IF dataTarget # <<>> THEN querySelector(doc, dataTarget) ELSE Returned(0)
    IN  IF found.threw THEN Threw
        ELSE IF found.value # 0 THEN found
        ELSE findByDataPopup(el, doc)

\* the second strategy and what follows it: aria-controls
findByAriaControls(el, doc) ==
    LET ariaControls == getAttributeOrEmpty(el, "aria-controls")
        found == IF ariaControls # <<>> THEN getElementById(doc, ariaControls) ELSE 0
    IN  IF found # 0 THEN Returned(found) ELSE findByDataTarget(el, doc)

findPopupElement(el, doc) ==
    LET href == getAttributeOrEmpty(el, "href")
        found == IF Len(href) > 1 /\ href[1] = "#"
                 THEN getElementById(doc, SubSeq(href, 2, Len(href))) ELSE 0
    IN  IF found # 0 THEN Returned(found) ELSE findByAriaControls(el, doc)

\* [a, b, ...].join(' ')
RECURSIVE JoinSpace(_)
JoinSpace(parts) ==
    IF Len(parts) = 0 THEN <<>>
    ELSE IF Len(parts) = 1 THEN parts[1]
    ELSE parts[1] \o <<" ">> \o JoinSpace(Tail(parts))

\* element?.attr || '' for an element position (0 is null)
ElementAttrOrEmpty(doc, e, a) ==
    IF e = 0 THEN <<>> ELSE getAttributeOrEmpty(doc[e], a)

\* the keyword loop without its early return: the last matching entry wins
RECURSIVE firstKeywordFrom_lastWins(_, _, _, _)
firstKeywordFrom_lastWins(table, searchText, n, default) ==
    IF n > Len(table) THEN default
    ELSE LET later == firstKeywordFrom_lastWins(table, searchText, n + 1, default)
         IN  IF later = default
                /\ \E k \in 1..Len(table[n].keywords) : includes(searchText, table[n].keywords[k])
             THEN table[n].label
             ELSE later

RECURSIVE firstKeywordFrom(_, _, _, _)
firstKeywordFrom(table, searchText, n, default) ==
    IF n > Len(table) THEN default
    ELSE IF \E k \in 1..Len(table[n].keywords) : includes(searchText, table[n].keywords[k])
         THEN table[n].label
         ELSE firstKeywordFrom(table, searchText, n + 1, default)

detectType(doc, e, el) ==
    LET searchText ==
            toLowerCase(JoinSpace(<< ElementAttrOrEmpty(doc, e, "class"),
                                     ElementAttrOrEmpty(doc, e, "id"),
                                     getAttributeOrEmpty(el, "class"),
                                     getAttributeOrEmpty(el, "href"),
                                     getAttributeOrEmpty(el, "aria-controls") >>))
    IN  firstKeywordFrom(TYPE_KEYWORDS, searchText, 1, "popup")

\* ------------------------------------------------------------------------
\* Text of elements.  An element may carry "text" (its own text) and
\* "children" (its descendants in document order, each with a tag, a class
\* and a text).
\* ------------------------------------------------------------------------

\* the number of characters of an atom; the atoms not listed are single
\* characters
AtomLen(a) ==
    CASE a = "Thanks for stopping by, here is what you can do to" -> 50
      [] a = "Subscribe" -> 9
      [] a = "Sign" -> 4
      [] a = "in" -> 2
      [] a = "Your" -> 4
      [] a = "Cart" -> 4
      [] a = "today" -> 5
      [] a = "login" -> 5
      [] a = "Modal" -> 5
      [] a = "side" -> 4
      [] a = "drawer" -> 6
      [] a = "pid" -> 3
      [] a = "panel" -> 5
      [] a = "modal" -> 5
      [] a = "fade" -> 4
      [] a = "..." -> 3
      [] a = "share" -> 5
      [] a = "nav" -> 3
      [] a = "Menu" -> 4
      [] a = "Contact" -> 7
      [] a = "video" -> 5
      [] a = "Frequently asked questions about the team and how we work to" -> 60
      [] a = "our" -> 3
      [] a = "team" -> 4
      [] a = "Team" -> 4
      [] a = "section" -> 7
      [] a = "Crew" -> 4
      [] a = "Staff" -> 5
      [] a = "Meet" -> 4
      [] a = "the" -> 3
      [] OTHER -> 1

RECURSIVE CharLen(_)
CharLen(s) == IF s = <<>> THEN 0 ELSE AtomLen(Head(s)) + CharLen(Tail(s))

\* s.substring(0, n): the longest run of leading atoms of at most n
\* characters (the modelled texts are cut between atoms)
RECURSIVE substring0(_, _)
substring0(s, n) ==
    IF s = <<>> \/ AtomLen(Head(s)) > n THEN <<>>
    ELSE <<Head(s)>> \o substring0(Tail(s), n - AtomLen(Head(s)))

RECURSIVE trimStart(_)
trimStart(s) == IF s # <<>> /\ Head(s) = " " THEN trimStart(Tail(s)) ELSE s

RECURSIVE trimEnd(_)
trimEnd(s) ==
    IF s # <<>> /\ s[Len(s)] = " " THEN trimEnd(SubSeq(s, 1, Len(s) - 1)) ELSE s

trim(s) == trimEnd(trimStart(s))

ChildrenOf(el) == IF hasAttribute(el, "children") THEN el["children"] ELSE <<>>

RECURSIVE ConcatTexts(_)
ConcatTexts(cs) == IF cs = <<>> THEN <<>> ELSE Head(cs).text \o ConcatTexts(Tail(cs))

textContent(el) == getAttributeOrEmpty(el, "text") \o ConcatTexts(ChildrenOf(el))

HeadingTags == {"h1", "h2", "h3", "h4", "h5", "h6"}

\* element.querySelector('h1, h2, h3, h4, h5, h6, .modal-title, .dialog-title'):
\* the position among the children, 0 when none
queryHeading(el) ==
    FirstOf({ i \in 1..Len(ChildrenOf(el)) :
                \/ ChildrenOf(el)[i].tag \in HeadingTags
                \/ ChildrenOf(el)[i].class \in {"modal-title", "dialog-title"} })

\* element.querySelector('p')
queryParagraph(el) ==
    FirstOf({ i \in 1..Len(ChildrenOf(el)) : ChildrenOf(el)[i].tag = "p" })

\* ------------------------------------------------------------------------
\* PopupDetector: purpose, description, analyze
\* ------------------------------------------------------------------------

PURPOSE_KEYWORDS ==
    << [label |-> "subscription",
        keywords |-> << <<"subscribe">>, <<"newsletter">>, <<"email">>,
                        <<"sign", "up">>, <<"sign", "-", "up">> >>],
       [label |-> "login",
        keywords |-> << <<"login">>, <<"sign", "in">>, <<"sign", "-", "in">>, <<"auth">> >>],
       [label |-> "contact",
        keywords |-> << <<"contact">>, <<"inquiry">>, <<"message">>, <<"form">> >>],
       [label |-> "cart", keywords |-> << <<"cart">>, <<"basket">>, <<"checkout">> >>],
       [label |-> "search", keywords |-> << <<"search">>, <<"find">> >>],
       [label |-> "menu", keywords |-> << <<"menu">>, <<"nav">>, <<"nav", "igation">> >>],
       [label |-> "share", keywords |-> << <<"share">>, <<"social">> >>],
       [label |-> "video",
        keywords |-> << <<"video">>, <<"youtube">>, <<"vimeo">>, <<"player">> >>],
       [label |-> "image",
        keywords |-> << <<"gallery">>, <<"image">>, <<"photo">>, <<"lightbox">> >>],
       [label |-> "confirmation",
        keywords |-> << <<"confirm">>, <<"delete">>, <<"remove">>, <<"warning">> >>] >>

\* detectPurpose with the last purpose of the table that matches
detectPurpose_lastWins(doc, e, el) ==
    LET searchText ==
            toLowerCase(JoinSpace(<< ElementAttrOrEmpty(doc, e, "class"),
                                     ElementAttrOrEmpty(doc, e, "id"),
                                     ElementAttrOrEmpty(doc, e, "aria-label"),
                                     IF e = 0 THEN <<>>
                                     ELSE substring0(textContent(doc[e]), 200),
                                     textContent(el),
                                     getAttributeOrEmpty(el, "href") >>))
    IN  firstKeywordFrom_lastWins(PURPOSE_KEYWORDS, searchText, 1, "general")

detectPurpose(doc, e, el) ==
    LET searchText ==
            toLowerCase(JoinSpace(<< ElementAttrOrEmpty(doc, e, "class"),
                                     ElementAttrOrEmpty(doc, e, "id"),
                                     ElementAttrOrEmpty(doc, e, "aria-label"),
                                     IF e = 0 THEN <<>>
                                     ELSE substring0(textContent(doc[e]), 200),
                                     textContent(el),
                                     getAttributeOrEmpty(el, "href") >>))
    IN  firstKeywordFrom(PURPOSE_KEYWORDS, searchText, 1, "general")

\* the atoms that are not word characters (\W)
NonWordAtoms == {" ", "-", "#", ".", "/", ",", "...", "\""}

\* the first letter of an atom in upper case
CapitalOf(a) ==
    CASE a = "login" -> "Login"
      [] a = "pid" -> "Pid"
      [] a = "x" -> "X"
      [] a = "side" -> "Side"
      [] a = "drawer" -> "Drawer"
      [] a = "panel" -> "Panel"
      [] a = "share" -> "Share"
      [] a = "nav" -> "Nav"
      [] a = "our" -> "Our"
      [] a = "team" -> "Team"
      [] a = "section" -> "Section"
      [] OTHER -> a

\* atoms that begin with an upper-case letter
UpperInitialAtoms ==
    {"Modal", "Subscribe", "Sign", "Your", "Cart", "X", "Login", "Pid", "Menu",
     "Share", "Nav", "Contact", "Our", "Team", "Section", "Crew", "Staff", "Meet",
     "Frequently asked questions about the team and how we work to"}

\* atoms that end with a lower-case letter
LowerFinalAtoms ==
    {"login", "Modal", "pid", "x", "side", "drawer", "panel", "modal", "fade",
     "share", "nav", "Menu", "our", "team", "Team", "section"}

\* id.replace(/[-_]/g, ' ')
dashesToSpaces(s) == [i \in 1..Len(s) |-> IF s[i] \in {"-", "_"} THEN " " ELSE s[i]]

\* s.replace(/([a-z])([A-Z])/g, '$1 $2')
RECURSIVE splitCamel(_)
splitCamel(s) ==
    IF Len(s) < 2 THEN s
    ELSE IF s[1] \in LowerFinalAtoms /\ s[2] \in UpperInitialAtoms
         THEN <<s[1], " ">> \o splitCamel(Tail(s))
         ELSE <<s[1]>> \o splitCamel(Tail(s))

\* s.replace(/\b\w/g, c => c.toUpperCase())
capitalizeWords(s) ==
    [i \in 1..Len(s) |->
        IF s[i] \notin NonWordAtoms /\ (i = 1 \/ s[i - 1] \in NonWordAtoms)
        THEN CapitalOf(s[i]) ELSE s[i]]

formatId(id) == capitalizeWords(splitCamel(dashesToSpaces(id)))

\* getPopupDescription trying the first paragraph before the heading
getPopupDescription_paragraphFirst(doc, e) ==
    IF e = 0 THEN <<"Unknown popup">>
    ELSE LET element == doc[e]
             heading == queryHeading(element)
             para == queryParagraph(element)
         IN  IF getAttributeOrEmpty(element, "aria-label") # <<>>
             THEN element["aria-label"]
             ELSE IF getAttributeOrEmpty(element, "title") # <<>>
             THEN element["title"]
             ELSE IF para # 0
             THEN substring0(trim(ChildrenOf(element)[para].text), 50) \o <<"...">>
             ELSE IF heading # 0
             THEN substring0(trim(ChildrenOf(element)[heading].text), 50)
             ELSE IF getAttributeOrEmpty(element, "id") # <<>>
             THEN formatId(element["id"])
             ELSE <<"Popup content">>

getPopupDescription(doc, e) ==
    IF e = 0 THEN <<"Unknown popup">>
    ELSE LET element == doc[e]
             heading == queryHeading(element)
             para == queryParagraph(element)
         IN  IF getAttributeOrEmpty(element, "aria-label") # <<>>
             THEN element["aria-label"]
             ELSE IF getAttributeOrEmpty(element, "title") # <<>>
             THEN element["title"]
             ELSE IF heading # 0
             THEN substring0(trim(ChildrenOf(element)[heading].text), 50)
             ELSE IF para # 0
             THEN substring0(trim(ChildrenOf(element)[para].text), 50) \o <<"...">>
             ELSE IF getAttributeOrEmpty(element, "id") # <<>>
             THEN formatId(element["id"])
             ELSE <<"Popup content">>

typeNames(type) ==
    CASE type = "modal" -> "Modal Window"
      [] type = "popup" -> "Popup"
      [] type = "drawer" -> "Slide-out Drawer"
      [] type = "sheet" -> "Bottom Sheet"
      [] type = "overlay" -> "Overlay"
      [] OTHER -> "Popup"

purposeNames(purpose) ==
    CASE purpose = "subscription" -> "Subscription Form"
      [] purpose = "login" -> "Login/Authentication"
      [] purpose = "contact" -> "Contact Form"
      [] purpose = "cart" -> "Shopping Cart"
      [] purpose = "search" -> "Search"
      [] purpose = "menu" -> "Navigation Menu"
      [] purpose = "share" -> "Share Options"
      [] purpose = "video" -> "Video Player"
      [] purpose = "image" -> "Image Gallery"
      [] purpose = "confirmation" -> "Confirmation Dialog"
      [] purpose = "general" -> "General Content"
      [] OTHER -> "General"

\* PopupDetector.analyze(link): null, a verdict, or the exception of
\* findPopupElement
analyze(el, doc) ==
    IF ~ isPopupTrigger(el) THEN Returned(null)
    ELSE LET found == findPopupElement(el, doc)
         IN  IF found.threw THEN Threw
             ELSE LET popupElement == found.value
                      type == detectType(doc, popupElement, el)
                      purpose == detectPurpose(doc, popupElement, el)
                  IN  Returned([hasPopup |-> TRUE,
                                popupElement |-> popupElement,
                                type |-> type,
                                typeName |-> typeNames(type),
                                purpose |-> purpose,
                                purposeName |-> purposeNames(purpose),
                                description |-> getPopupDescription(doc, popupElement),
                                linkText |-> substring0(trim(textContent(el)), 50)])

\* ------------------------------------------------------------------------
\* Inputs of the PopupDetector specification
\* ------------------------------------------------------------------------

NoAttrs == [a \in {} |-> <<>>]

\* the attribute a with text v, and the absent attribute
WithOrWithout(a, values) == {NoAttrs} \cup { a :> v : v \in values }

LoginModalId == <<"login", "Modal">>

HrefChoices == WithOrWithout("href", { <<"#">>, <<"#">> \o LoginModalId, <<"#", "x">> })

ClassChoices == WithOrWithout("class", { <<"fancybox">>, <<"action", "-", "sheet">> })

RoleChoices == WithOrWithout("role", { <<"button">>, <<"BUTTON">> })

AriaChoices == WithOrWithout("aria-controls", { LoginModalId, <<"x">> })

ToggleChoices == WithOrWithout("data-bs-toggle", { <<"modal">> })

TargetChoices ==
    { NoAttrs,
      "data-target" :> <<"#">>,
      ("data-target" :> <<"#", "x">>) @@ ("data-bs-target" :> <<".", "panel">>),
      "data-bs-target" :> <<".", "panel">> }

PopupChoices ==
    { NoAttrs,
      ("data-popup" :> <<>>) @@ ("data-modal" :> <<"x">>),
      "data-popup" :> <<"pid">>,
      ("data-popup" :> <<"pid">>) @@ ("data-modal" :> <<"x">>) }

TextChoices == WithOrWithout("text", { <<" ", "Subscribe", " ">> })

PopupAnchors ==
    { h @@ c @@ r @@ a @@ g @@ t @@ p @@ x :
        h \in HrefChoices, c \in ClassChoices, r \in RoleChoices,
        a \in AriaChoices, g \in ToggleChoices, t \in TargetChoices,
        p \in PopupChoices, x \in TextChoices }

Child(tag, class, text) == [tag |-> tag, class |-> class, text |-> text]

\* a login dialog with an aria-label
LoginModal ==
    ("id" :> LoginModalId) @@ ("class" :> <<"modal", " ", "fade">>)
        @@ ("aria-label" :> <<"Sign", " ", "in">>)

\* a cart drawer with a heading
CartDrawer ==
    ("id" :> <<"x">>) @@ ("class" :> <<"side", "drawer">>)
        @@ ("children" :> << Child("h2", "", <<" ", "Your", " ", "Cart", " ">>) >>)

\* a panel without id, with a long first paragraph
Panel ==
    ("class" :> <<"panel">>)
        @@ ("children" :>
               << Child("p", "", <<"Thanks for stopping by, here is what you can do to",
                                   " ", "today">>) >>)

\* an element found by id only
PidById == "id" :> <<"pid">>

\* an element found by its data-popup-id only
PidByDataAttr == "data-popup-id" :> <<"pid">>

Documents ==
    { front \o back :
        front \in { <<CartDrawer>>, <<LoginModal, CartDrawer>> },
        back \in { <<>>, <<Panel, PidByDataAttr>>, <<Panel, PidByDataAttr, PidById>> } }

\* ------------------------------------------------------------------------
\* The PopupDetector specification
\* ------------------------------------------------------------------------

InitPopup ==
    /\ link \in PopupAnchors
    /\ links = <<link>>
    /\ document \in Documents
    /\ called = "none"
    /\ result = null
    /\ RestIdle

PopupDetector_isPopupTrigger ==
    /\ called = "none"
    /\ called' = "isPopupTrigger"
    /\ result' = isPopupTrigger(link)
    /\ UNCHANGED <<link, links, document, others>>

PopupDetector_findPopupElement ==
    /\ called = "none"
    /\ called' = "findPopupElement"
    /\ result' = findPopupElement(link, document)
    /\ UNCHANGED <<link, links, document, others>>

\* detectType(element, link) for any element of the page, or null
PopupDetector_detectType ==
    /\ called = "none"
    /\ called' = "detectType"
    /\ \E e \in 0..Len(document) :
           result' = [element |-> e, type |-> detectType(document, e, link)]
    /\ UNCHANGED <<link, links, document, others>>

PopupDetector_analyze ==
    /\ called = "none"
    /\ called' = "analyze"
    /\ result' = analyze(link, document)
    /\ UNCHANGED <<link, links, document, others>>

NextPopup ==
    \/ PopupDetector_isPopupTrigger
    \/ PopupDetector_findPopupElement
    \/ PopupDetector_detectType
    \/ PopupDetector_analyze
    \/ Return

SpecPopup == InitPopup /\ [][NextPopup]_vars

\* ------------------------------------------------------------------------
\* Claims about PopupDetector
\* ------------------------------------------------------------------------

\* some atom of the text is, in lower case, one of the keywords
HasKeyword(text, keywords) == \E i \in 1..Len(text) : LowerOf(text[i]) \in keywords

IdKeywords ==
    {"popup", "modal", "dialog", "drawer", "offcanvas", "overlay", "lightbox",
     "slideover", "sheet"}

ClassKeywords ==
    {"popup", "modal", "dialog", "drawer", "offcanvas", "overlay", "lightbox",
     "fancybox"}

TriggerDataAttrs ==
    {"data-popup", "data-modal", "data-toggle", "data-bs-toggle", "data-dialog",
     "data-drawer", "data-overlay", "data-fancybox", "data-lightbox",
     "data-micromodal-trigger"}

HrefCheck(el) == HasKeyword(getAttributeOrEmpty(el, "href"), IdKeywords)

DataAttrCheck(el) == DOMAIN el \cap TriggerDataAttrs # {}

ClassCheck(el) == HasKeyword(getAttributeOrEmpty(el, "class"), ClassKeywords)

AriaMatches(el) == HasKeyword(getAttributeOrEmpty(el, "aria-controls"), IdKeywords)

RoleAriaCheck(el) ==
    /\ "role" \in DOMAIN el
    /\ el["role"] = <<"button">>
    /\ AriaMatches(el)

\* C7: isPopupTrigger is true if and only if the href matches a popup
\* keyword, or the element has one of the fixed data attributes (whatever
\* its value), or the class matches a popup keyword, or role is exactly
\* 'button' and aria-controls matches a popup keyword.
C7_TriggerIffOneOfFourChecks ==
    called = "isPopupTrigger" =>
        result = (HrefCheck(link) \/ DataAttrCheck(link) \/ ClassCheck(link)
                      \/ RoleAriaCheck(link))

\* C7 witness: the fourth check alone decides (role button and a matching
\* aria-controls, nothing else)
C7_Witness ==
    /\ called = "isPopupTrigger"
    /\ RoleAriaCheck(link)
    /\ ~ HrefCheck(link) /\ ~ DataAttrCheck(link) /\ ~ ClassCheck(link)
    /\ result = TRUE

\* what each of the four strategies names, and where it is in the document
\* (0 when it names nothing or nothing is there)
HrefFragmentTarget(el, doc) ==
    LET href == getAttributeOrEmpty(el, "href")
    IN  IF Len(href) > 1 /\ href[1] = "#"
        THEN getElementById(doc, SubSeq(href, 2, Len(href))) ELSE 0

AriaControlsTarget(el, doc) == getElementById(doc, getAttributeOrEmpty(el, "aria-controls"))

SelectorText(el) ==
    OrElse(getAttributeOrEmpty(el, "data-target"), getAttributeOrEmpty(el, "data-bs-target"))

\* an invalid selector resolves to nothing
DataTargetTarget(el, doc) ==
    IF SelectorText(el) = <<>> \/ querySelector(doc, SelectorText(el)).threw THEN 0
    ELSE querySelector(doc, SelectorText(el)).value

DataPopupTarget(el, doc) == findByDataPopup(el, doc).value

FirstResolved(el, doc) ==
    IF HrefFragmentTarget(el, doc) # 0 THEN HrefFragmentTarget(el, doc)
    ELSE IF AriaControlsTarget(el, doc) # 0 THEN AriaControlsTarget(el, doc)
    ELSE IF DataTargetTarget(el, doc) # 0 THEN DataTargetTarget(el, doc)
    ELSE DataPopupTarget(el, doc)

\* C8: findPopupElement returns the element found by the first strategy, in
\* the order href fragment, aria-controls, data-target selector, data-popup
\* lookup, that resolves, and null only when all four fail.
C8_FirstResolvingStrategyWins ==
    called = "findPopupElement" =>
        result = Returned(FirstResolved(link, document))

\* C9: for an anchor with data-bs-toggle="modal" for which none of the four
\* strategies finds an element, isPopupTrigger returns true, findPopupElement
\* returns null and analyze returns a verdict with hasPopup true and
\* popupElement null.
C9_ToggleWithoutTarget ==
    ( /\ "data-bs-toggle" \in DOMAIN link
      /\ link["data-bs-toggle"] = <<"modal">>
      /\ FirstResolved(link, document) = 0 ) =>
        /\ called = "isPopupTrigger" => result = TRUE
        /\ called = "findPopupElement" => result = Returned(0)
        /\ called = "analyze" =>
               /\ ~ result.threw
               /\ result.value # null
               /\ result.value.hasPopup
               /\ result.value.popupElement = 0

TypeOrder == <<"modal", "popup", "drawer", "sheet", "overlay">>

TypeKeywordAtoms(type) ==
    CASE type = "modal" -> {"modal", "dialog", "lightbox"}
      [] type = "popup" -> {"popup", "popover", "tooltip"}
      [] type = "drawer" -> {"drawer", "slideover", "sidebar", "offcanvas"}
      [] type = "sheet" -> {"sheet"}
      [] type = "overlay" -> {"overlay", "backdrop"}

\* a keyword of the type occurs in one of the five scanned texts
TypeOccurs(type, doc, e, el) ==
    \/ HasKeyword(ElementAttrOrEmpty(doc, e, "class"), TypeKeywordAtoms(type))
    \/ HasKeyword(ElementAttrOrEmpty(doc, e, "id"), TypeKeywordAtoms(type))
    \/ HasKeyword(getAttributeOrEmpty(el, "class"), TypeKeywordAtoms(type))
    \/ HasKeyword(getAttributeOrEmpty(el, "href"), TypeKeywordAtoms(type))
    \/ HasKeyword(getAttributeOrEmpty(el, "aria-controls"), TypeKeywordAtoms(type))

ExpectedType(doc, e, el) ==
    LET hits == { n \in 1..Len(TypeOrder) : TypeOccurs(TypeOrder[n], doc, e, el) }
    IN  IF hits = {} THEN "popup"
        ELSE TypeOrder[CHOOSE n \in hits : \A k \in hits : n <= k]

\* C10: detectType returns the first category, in the order modal, popup,
\* drawer, sheet, overlay, that has a keyword in the lower-cased texts of the
\* resolved element (class, id) and the trigger (class, href,
\* aria-controls), wherever in the text the keywords stand, and 'popup'
\* when no keyword occurs.
C10_FirstTypeInDeclaredOrder ==
    called = "detectType" =>
        result.type = ExpectedType(document, result.element, link)

\* C10 witness: the element's class names a drawer, the trigger's href, later
\* in the scanned text, names a modal, and the type is modal
C10_Witness ==
    /\ called = "detectType"
    /\ result.element # 0
    /\ HasKeyword(ElementAttrOrEmpty(document, result.element, "class"), {"drawer"})
    /\ ~ HasKeyword(ElementAttrOrEmpty(document, result.element, "class"), {"modal"})
    /\ HasKeyword(getAttributeOrEmpty(link, "href"), {"modal"})
    /\ result.type = "modal"

\* ------------------------------------------------------------------------
\* The specification of a popup's content: one trigger and one element that
\* has any combination of aria-label, title, heading, paragraph and id
\* ------------------------------------------------------------------------

ShareNavMenuId == <<"share", "-", "nav", "Menu">>

CartHeading == Child("h2", "", <<" ", "Your", " ", "Cart", " ">>)

BlankHeading == Child("h3", "", <<" ">>)

TitleDiv == Child("div", "modal-title", <<"Your", " ", "Cart">>)

LongParagraph ==
    Child("p", "", <<" ", "Thanks for stopping by, here is what you can do to", " ", "today">>)

ChildrenChoices ==
    { NoAttrs } \cup
    { "children" :> cs :
        cs \in { <<CartHeading>>, <<LongParagraph>>, <<CartHeading, LongParagraph>>,
                 <<LongParagraph, TitleDiv>>, <<BlankHeading, LongParagraph>> } }

ContentElements ==
    { ("class" :> <<"panel">>) @@ l @@ t @@ i @@ c :
        l \in WithOrWithout("aria-label", { <<"Sign", " ", "in">> }),
        t \in WithOrWithout("title", { <<"Contact">> }),
        i \in WithOrWithout("id", { ShareNavMenuId }),
        c \in ChildrenChoices }

ContentAnchors ==
    { g @@ t @@ x @@ h :
        g \in ToggleChoices,
        t \in { NoAttrs, "data-target" :> <<"#">>, "data-bs-target" :> <<".", "panel">> },
        x \in TextChoices,
        h \in WithOrWithout("href", { <<"#", "video">> }) }

InitContent ==
    /\ link \in ContentAnchors
    /\ links = <<link>>
    /\ \E el \in ContentElements : document = <<el>>
    /\ called = "none"
    /\ result = null
    /\ RestIdle

\* detectPurpose(element, link) for any element of the page, or null
PopupDetector_detectPurpose ==
    /\ called = "none"
    /\ called' = "detectPurpose"
    /\ \E e \in 0..Len(document) :
           result' = [element |-> e, purpose |-> detectPurpose(document, e, link)]
    /\ UNCHANGED <<link, links, document, others>>

NextContent ==
    \/ PopupDetector_detectPurpose
    \/ PopupDetector_analyze
    \/ Return

SpecContent == InitContent /\ [][NextContent]_vars

\* ------------------------------------------------------------------------
\* Claims about the purpose and the description of a popup
\* ------------------------------------------------------------------------

PurposeOrder ==
    <<"subscription", "login", "contact", "cart", "search", "menu", "share",
      "video", "image", "confirmation">>

\* the keywords of a purpose, as texts
PurposeKeywordTexts(purpose) ==
    CASE purpose = "subscription" ->
             { <<"subscribe">>, <<"newsletter">>, <<"email">>, <<"sign", "up">>,
               <<"sign", "-", "up">> }
      [] purpose = "login" ->
             { <<"login">>, <<"sign", "in">>, <<"sign", "-", "in">>, <<"auth">> }
      [] purpose = "contact" -> { <<"contact">>, <<"inquiry">>, <<"message">>, <<"form">> }
      [] purpose = "cart" -> { <<"cart">>, <<"basket">>, <<"checkout">> }
      [] purpose = "search" -> { <<"search">>, <<"find">> }
      [] purpose = "menu" -> { <<"menu">>, <<"nav">> }
      [] purpose = "share" -> { <<"share">>, <<"social">> }
      [] purpose = "video" -> { <<"video">>, <<"youtube">>, <<"vimeo">>, <<"player">> }
      [] purpose = "image" -> { <<"gallery">>, <<"image">>, <<"photo">>, <<"lightbox">> }
      [] purpose = "confirmation" ->
             { <<"confirm">>, <<"delete">>, <<"remove">>, <<"warning">> }

\* the six texts detectPurpose scans: the element's class, id, aria-label and
\* the first 200 characters of its text, the trigger's text and href
ScannedForPurpose(doc, e, el) ==
    { ElementAttrOrEmpty(doc, e, "class"),
      ElementAttrOrEmpty(doc, e, "id"),
      ElementAttrOrEmpty(doc, e, "aria-label"),
      IF e = 0 THEN <<>> ELSE substring0(textContent(doc[e]), 200),
      textContent(el),
      getAttributeOrEmpty(el, "href") }

\* a keyword of the purpose occurs, in any case, in one of the scanned texts
PurposeOccurs(purpose, doc, e, el) ==
    \E text \in ScannedForPurpose(doc, e, el) :
        \E keyword \in PurposeKeywordTexts(purpose) :
            includes(toLowerCase(text), keyword)

ExpectedPurpose(doc, e, el) ==
    LET hits == { n \in 1..Len(PurposeOrder) : PurposeOccurs(PurposeOrder[n], doc, e, el) }
    IN  IF hits = {} THEN "general"
        ELSE PurposeOrder[CHOOSE n \in hits : \A k \in hits : n <= k]

\* C11: detectPurpose returns the first purpose, in the order subscription,
\* login, contact, cart, search, menu, share, video, image, confirmation,
\* that has a keyword in the scanned text of the resolved element and the
\* trigger, the earlier-declared purpose winning when several match, and
\* 'general' when no keyword occurs.
C11_FirstPurposeInDeclaredOrder ==
    called = "detectPurpose" =>
        result.purpose = ExpectedPurpose(document, result.element, link)

\* C11 witness: the element's id names sharing before a menu, nothing else
\* names an earlier purpose, and the purpose is menu, declared before share
C11_Witness ==
    /\ called = "detectPurpose"
    /\ result.element # 0
    /\ ElementAttrOrEmpty(document, result.element, "id") = ShareNavMenuId
    /\ PurposeOccurs("share", document, result.element, link)
    /\ result.purpose = "menu"

\* the title form of an id, in one pass over its atoms: '-' and '_' become
\* spaces, a space goes between an atom ending in a lower-case letter and
\* one beginning in upper case, and an atom that starts a word gets a
\* capital
RECURSIVE TitleFormFrom(_, _)
TitleFormFrom(id, i) ==
    IF i > Len(id) THEN <<>>
    ELSE LET startsWord == i = 1 \/ id[i - 1] \in NonWordAtoms \cup {"_"}
             camel == i > 1 /\ id[i - 1] \in LowerFinalAtoms /\ id[i] \in UpperInitialAtoms
             piece == IF id[i] \in {"-", "_"} THEN <<" ">>
                      ELSE (IF camel THEN <<" ">> ELSE <<>>)
                               \o << IF startsWord THEN CapitalOf(id[i]) ELSE id[i] >>
         IN  piece \o TitleFormFrom(id, i + 1)

TitleForm(id) == TitleFormFrom(id, 1)

\* the sources of a description, in order, each with whether the element
\* has it and the text it gives
DescriptionSources(el) ==
    LET heading == queryHeading(el)
        para == queryParagraph(el)
    IN  << [has |-> getAttributeOrEmpty(el, "aria-label") # <<>>,
            text |-> getAttributeOrEmpty(el, "aria-label")],
           [has |-> getAttributeOrEmpty(el, "title") # <<>>,
            text |-> getAttributeOrEmpty(el, "title")],
           [has |-> heading # 0,
            text |-> IF heading = 0 THEN <<>>
                     ELSE substring0(trim(ChildrenOf(el)[heading].text), 50)],
           [has |-> para # 0,
            text |-> IF para = 0 THEN <<>>
                     ELSE substring0(trim(ChildrenOf(el)[para].text), 50) \o <<"...">>],
           [has |-> getAttributeOrEmpty(el, "id") # <<>>,
            text |-> TitleForm(getAttributeOrEmpty(el, "id"))],
           [has |-> TRUE, text |-> <<"Popup content">>] >>

FirstAvailable(sources) ==
    sources[CHOOSE n \in 1..Len(sources) :
                sources[n].has /\ \A k \in 1..(n - 1) : ~ sources[k].has].text

AnalyzeGaveVerdict == called = "analyze" /\ ~ result.threw /\ result.value # null

\* C12 as stated: for every popup trigger the description of analyze's
\* verdict is the first available of the target's aria-label, title,
\* heading text, first paragraph text and formatted id, and 'Popup content'
\* when none of these is available (as it is when there is no target).
C12_DescriptionFallback ==
    AnalyzeGaveVerdict =>
        result.value.description =
            IF result.value.popupElement = 0 THEN <<"Popup content">>
            ELSE FirstAvailable(DescriptionSources(document[result.value.popupElement]))

\* C12 amended: the description is 'Unknown popup' when no target element
\* was resolved; otherwise it is the first available of the target's
\* non-empty aria-label, non-empty title, the trimmed text cut to 50
\* characters of the first heading (h1-h6, .modal-title, .dialog-title)
\* inside it, the trimmed text cut to 50 characters of its first paragraph
\* followed by '...', and its non-empty id in title form; and 'Popup
\* content' when the target has none of them.
C12_DescriptionFallbackOrUnknown ==
    AnalyzeGaveVerdict =>
        result.value.description =
            IF result.value.popupElement = 0 THEN <<"Unknown popup">>
            ELSE FirstAvailable(DescriptionSources(document[result.value.popupElement]))

\* C12 witness: the target has a heading after its first paragraph and an
\* id, no aria-label and no title, and the description is the heading's text
C12_Witness ==
    /\ AnalyzeGaveVerdict
    /\ result.value.popupElement # 0
    /\ LET el == document[result.value.popupElement]
       IN  /\ ~ hasAttribute(el, "aria-label") /\ ~ hasAttribute(el, "title")
           /\ hasAttribute(el, "id")
           /\ queryParagraph(el) # 0 /\ queryHeading(el) > queryParagraph(el)
    /\ result.value.description = <<"Your", " ", "Cart">>

\* ------------------------------------------------------------------------
\* AnchorInspector.  An element of the page also carries "tagName"; the
\* section cache is a function from element positions to section infos.
\* ------------------------------------------------------------------------

\* window.location.pathname of the inspected page
LocationPathname == <<"/", "p">>

\* url.pathname of new URL(s, window.location.origin), for a text that parses
pathnameOf(s) ==
    LET afterHost == IF Len(s) > 0 /\ s[1] \in SchemeAtoms
                     THEN SubSeq(s, 2 + Len(HostOf(s)), Len(s)) ELSE s
        stop == {i \in 1..Len(afterHost) : afterHost[i] \in {"?", "#"}}
        path == IF stop = {} THEN afterHost
                ELSE SubSeq(afterHost, 1, (CHOOSE i \in stop : \A j \in stop : i <= j) - 1)
    IN  IF path # <<>> /\ path[1] = "/" THEN path ELSE <<"/">> \o path

\* url.hash: "#" and the fragment, empty when the fragment is empty
hashOf(s) ==
    LET h == IndexOf(s, "#")
    IN  IF h = 0 \/ h = Len(s) THEN <<>> ELSE SubSeq(s, h, Len(s))

\* AnchorInspector.isAnchorLink, as the truth value of what it returns
isAnchorLink(el) ==
    LET href == getAttributeOrEmpty(el, "href")
    IN  IF href = <<>> THEN FALSE
        ELSE IF href[1] = "#" /\ Len(href) > 1 THEN TRUE
        ELSE IF ~ URLParses(href) THEN FALSE
        ELSE pathnameOf(href) = LocationPathname /\ Len(hashOf(href)) > 1

\* AnchorInspector.getAnchorId: the text after the first "#"; the empty text
\* stands for null and for '' alike, both are falsy to every caller
getAnchorId(el) ==
    LET href == getAttributeOrEmpty(el, "href")
        hashIndex == IndexOf(href, "#")
    IN  IF hashIndex = 0 THEN <<>> ELSE SubSeq(href, hashIndex + 1, Len(href))

\* document.querySelector(`[attr="${v}"]`): a double quote in v ends the
\* string of the selector early and what follows makes it invalid
queryAttributeEquals(doc, attr, v) ==
    IF \E i \in 1..Len(v) : v[i] = "\""
    THEN Threw
    ELSE Returned(FirstOf({ i \in 1..Len(doc) :
                              hasAttribute(doc[i], attr) /\ doc[i][attr] = v }))

\* findTargetElement with the data-anchor lookup before the name lookup
findTargetElement_dataAnchorFirst(doc, anchorId) ==
    IF anchorId = <<>> THEN Returned(0)
    ELSE IF getElementById(doc, anchorId) # 0
    THEN Returned(getElementById(doc, anchorId))
    ELSE LET byData == queryAttributeEquals(doc, "data-anchor", anchorId)
         IN  IF byData.threw \/ byData.value # 0 THEN byData
             ELSE queryAttributeEquals(doc, "name", anchorId)

\* AnchorInspector.findTargetElement
findTargetElement(doc, anchorId) ==
    IF anchorId = <<>> THEN Returned(0)
    ELSE IF getElementById(doc, anchorId) # 0
    THEN Returned(getElementById(doc, anchorId))
    ELSE LET byName == queryAttributeEquals(doc, "name", anchorId)
         IN  IF byName.threw \/ byName.value # 0 THEN byName
             ELSE queryAttributeEquals(doc, "data-anchor", anchorId)

\* formatIdAsTitle without the space at a lower-to-upper boundary
formatIdAsTitle_noCamelSplit(id) ==
    IF id = <<>> THEN <<"Unknown Section">>
    ELSE capitalizeWords(dashesToSpaces(id))

\* AnchorInspector.formatIdAsTitle
formatIdAsTitle(id) ==
    IF id = <<>> THEN <<"Unknown Section">>
    ELSE capitalizeWords(splitCamel(dashesToSpaces(id)))

\* a text held in a field that may also be null
Text(s) == [text |-> s]

\* element.querySelector('h1, h2, h3, h4, h5, h6')
querySectionHeading(el) ==
    FirstOf({ i \in 1..Len(ChildrenOf(el)) : ChildrenOf(el)[i].tag \in HeadingTags })

sectionType(tagName) ==
    CASE tagName = <<"SECTION">> -> "section"
      [] tagName = <<"ARTICLE">> -> "article"
      [] tagName = <<"DIV">> -> "container"
      [] tagName \in { <<"H1">>, <<"H2">>, <<"H3">>, <<"H4">> } -> "heading"
      [] OTHER -> "element"

\* the info getSectionInfo builds when the cache has none
computeSectionInfo(el) ==
    LET type == sectionType(el["tagName"])
        heading == querySectionHeading(el)
        fromHeading == IF heading = 0 THEN <<>>
                       ELSE substring0(trim(ChildrenOf(el)[heading].text), 60)
        orAriaLabel == OrElse(fromHeading, getAttributeOrEmpty(el, "aria-label"))
        orDataTitle == OrElse(orAriaLabel, getAttributeOrEmpty(el, "data-title"))
        orOwnText == IF orDataTitle = <<>> /\ type = "heading"
                     THEN substring0(trim(textContent(el)), 60) ELSE orDataTitle
        title == IF orOwnText = <<>> THEN formatIdAsTitle(getAttributeOrEmpty(el, "id"))
                 ELSE orOwnText
        firstP == queryParagraph(el)
    IN  [id |-> getAttributeOrEmpty(el, "id"),
         tagName |-> toLowerCase(el["tagName"]),
         title |-> title,
         description |-> IF firstP = 0 THEN null
                         ELSE Text(substring0(trim(ChildrenOf(el)[firstP].text), 80)
                                       \o <<"...">>),
         type |-> type]

\* getSectionInfo that computes the info on every call
getSectionInfo_recompute(doc, cache, e) ==
    IF e = 0 THEN [info |-> null, cache |-> cache]
    ELSE [info |-> computeSectionInfo(doc[e]),
          cache |-> [k \in DOMAIN cache \cup {e} |-> computeSectionInfo(doc[e])]]

\* getSectionInfo storing the info before its description is filled in
getSectionInfo_cachesBeforeDescription(doc, cache, e) ==
    IF e = 0 THEN [info |-> null, cache |-> cache]
    ELSE IF e \in DOMAIN cache THEN [info |-> cache[e], cache |-> cache]
    ELSE [info |-> computeSectionInfo(doc[e]),
          cache |-> (e :> [computeSectionInfo(doc[e]) EXCEPT !.description = null])
                        @@ cache]

\* AnchorInspector.getSectionInfo: the info returned and the cache it leaves
getSectionInfo(doc, cache, e) ==
    IF e = 0 THEN [info |-> null, cache |-> cache]
    ELSE IF e \in DOMAIN cache THEN [info |-> cache[e], cache |-> cache]
    ELSE [info |-> computeSectionInfo(doc[e]),
          cache |-> (e :> computeSectionInfo(doc[e])) @@ cache]

\* AnchorInspector.analyze: null, a verdict, or the exception of
\* findTargetElement; and the cache it leaves
anchorAnalyze(el, doc, cache) ==
    IF ~ isAnchorLink(el) \/ getAnchorId(el) = <<>>
    THEN [outcome |-> Returned(null), cache |-> cache]
    ELSE LET found == findTargetElement(doc, getAnchorId(el))
         IN  IF found.threw THEN [outcome |-> Threw, cache |-> cache]
             ELSE LET section == getSectionInfo(doc, cache, found.value)
                  IN  [outcome |->
                           Returned([anchorId |-> getAnchorId(el),
                                     hasTarget |-> found.value # 0,
                                     target |-> found.value,
                                     sectionInfo |-> section.info,
                                     linkText |-> substring0(trim(textContent(el)), 50)]),
                       cache |-> section.cache]

\* AnchorInspector.scanPage over the links from position i on: the anchors
\* collected, or the exception of the first analyze that throws, and the
\* cache the calls made until then leave
RECURSIVE anchorScanFrom(_, _, _, _, _)
anchorScanFrom(page, doc, cache, i, anchors) ==
    IF i > Len(page) THEN [outcome |-> Returned(anchors), cache |-> cache]
    ELSE IF ~ includes(getAttributeOrEmpty(page[i], "href"), <<"#">>)
    THEN anchorScanFrom(page, doc, cache, i + 1, anchors)
    ELSE LET data == anchorAnalyze(page[i], doc, cache)
         IN  IF data.outcome.threw THEN [outcome |-> Threw, cache |-> data.cache]
             ELSE IF data.outcome.value = null
             THEN anchorScanFrom(page, doc, data.cache, i + 1, anchors)
             ELSE anchorScanFrom(page, doc, data.cache, i + 1,
                                 Append(anchors, [element |-> i,
                                                  href |-> page[i]["href"],
                                                  data |-> data.outcome.value]))

anchorScanPage(page, doc, cache) == anchorScanFrom(page, doc, cache, 1, <<>>)

\* ------------------------------------------------------------------------
\* AnchorInspector: the calls, and the page's own changes of its elements
\* ------------------------------------------------------------------------

AnchorInspector_findTargetElement ==
    /\ called = "none"
    /\ called' = "AnchorInspector.findTargetElement"
    /\ \E l \in 1..Len(links) :
           result' = [link |-> l,
                      outcome |-> findTargetElement(document, getAnchorId(links[l]))]
    /\ UNCHANGED <<link, links, document, others>>

\* getSectionInfo(element) for any element of the page, or null
AnchorInspector_getSectionInfo ==
    /\ called = "none"
    /\ called' = "AnchorInspector.getSectionInfo"
    /\ \E e \in 0..Len(document) :
           /\ result' = [element |-> e, info |-> getSectionInfo(document, sectionCache, e).info]
           /\ sectionCache' = getSectionInfo(document, sectionCache, e).cache
    /\ UNCHANGED <<link, links, document, recorded, workerVars, scriptVars>>

\* analyze(link) for any link of the page
AnchorInspector_analyze ==
    /\ called = "none"
    /\ called' = "AnchorInspector.analyze"
    /\ \E l \in 1..Len(links) :
           /\ result' = [link |-> l,
                         outcome |-> anchorAnalyze(links[l], document, sectionCache).outcome]
           /\ sectionCache' = anchorAnalyze(links[l], document, sectionCache).cache
    /\ UNCHANGED <<link, links, document, recorded, workerVars, scriptVars>>

AnchorInspector_scanPage ==
    /\ called = "none"
    /\ called' = "AnchorInspector.scanPage"
    /\ result' = [outcome |-> anchorScanPage(links, document, sectionCache).outcome]
    /\ sectionCache' = anchorScanPage(links, document, sectionCache).cache
    /\ UNCHANGED <<link, links, document, recorded, workerVars, scriptVars>>

AnchorInspector_clearCache ==
    /\ called = "none"
    /\ called' = "AnchorInspector.clearCache"
    /\ result' = undefined
    /\ sectionCache' = EmptyMap
    /\ UNCHANGED <<link, links, document, recorded, workerVars, scriptVars>>

\* the texts the page's script gives an aria-label, an id and a heading
AriaLabelTexts == { <<"Team">> }

OurTeamSectionId == <<"our", "-", "team", "-", "section">>

OurTeamCamelId == <<"our", "Team", "_", "section">>

IdTexts == { OurTeamSectionId, OurTeamCamelId }

HeadingTexts == { <<" ", "Meet", " ", "the", " ", "team", " ">>, <<"Crew">> }

\* element.setAttribute('aria-label', v) and element.removeAttribute('aria-label')
\* by the page
Page_setAriaLabel ==
    /\ called = "none"
    /\ \E e \in 1..Len(document) :
           \/ \E v \in AriaLabelTexts :
                  /\ getAttributeOrEmpty(document[e], "aria-label") # v
                  /\ document' = [document EXCEPT ![e] = ("aria-label" :> v) @@ @]
           \/ /\ hasAttribute(document[e], "aria-label")
              /\ document' = [document EXCEPT
                                ![e] = [a \in DOMAIN @ \ {"aria-label"} |-> @[a]]]
    /\ recorded' = EmptyMap
    /\ UNCHANGED <<link, links, called, result, sectionCache, workerVars, scriptVars>>

\* element.id = v by the page, on an element that has an id
Page_setId ==
    /\ called = "none"
    /\ \E e \in 1..Len(document), v \in IdTexts :
           /\ hasAttribute(document[e], "id")
           /\ document[e]["id"] # v
           /\ document' = [document EXCEPT ![e] = ("id" :> v) @@ @]
    /\ recorded' = EmptyMap
    /\ UNCHANGED <<link, links, called, result, sectionCache, workerVars, scriptVars>>

\* heading.textContent = v by the page, on the first heading inside an element
Page_setHeadingText ==
    /\ called = "none"
    /\ \E e \in 1..Len(document), v \in HeadingTexts :
           LET h == querySectionHeading(document[e])
           IN  /\ h # 0
               /\ ChildrenOf(document[e])[h].text # v
               /\ document' =
                      [document EXCEPT
                         ![e] = ("children" :>
                                    [ChildrenOf(document[e]) EXCEPT ![h].text = v]) @@ @]
    /\ recorded' = EmptyMap
    /\ UNCHANGED <<link, links, called, result, sectionCache, workerVars, scriptVars>>

\* ------------------------------------------------------------------------
\* The specification of section infos: one element with any combination of
\* tag, id, aria-label, data-title, heading and paragraph; the page changes
\* its aria-label
\* ------------------------------------------------------------------------

TeamHeading == Child("h3", "", <<" ", "Meet", " ", "the", " ", "team", " ">>)

LongHeading ==
    Child("h6", "",
          <<" ", "Frequently asked questions about the team and how we work to", " ",
            "team">>)

SectionChildrenChoices ==
    { NoAttrs } \cup
    { "children" :> cs :
        cs \in { <<TeamHeading>>, <<BlankHeading>>, <<LongParagraph>>, <<TitleDiv>>,
                 <<LongParagraph, LongHeading>> } }

SectionElements ==
    { ("text" :> <<" ", "Meet", " ">>) @@ g @@ i @@ l @@ t @@ c :
        g \in { "tagName" :> n : n \in { <<"SECTION">>, <<"H2">>, <<"H5">> } },
        i \in WithOrWithout("id", IdTexts),
        l \in WithOrWithout("aria-label", AriaLabelTexts),
        t \in WithOrWithout("data-title", { <<"Staff">> }),
        c \in SectionChildrenChoices }

InitSection ==
    /\ link = Anchor(<<"#">> \o OurTeamSectionId)
    /\ links = <<link>>
    /\ \E el \in SectionElements : document = <<el>>
    /\ called = "none"
    /\ result = null
    /\ RestIdle

NextSection ==
    \/ AnchorInspector_getSectionInfo
    \/ AnchorInspector_clearCache
    \/ Page_setAriaLabel
    \/ Return

SpecSection == InitSection /\ [][NextSection]_vars

\* ------------------------------------------------------------------------
\* Claims about section infos
\* ------------------------------------------------------------------------

\* this step is a getSectionInfo call on an element the cache has no entry
\* for
ComputesSectionInfo ==
    /\ called = "none"
    /\ called' = "AnchorInspector.getSectionInfo"
    /\ result'.element # 0
    /\ result'.element \notin DOMAIN sectionCache

InnerHeadingText(el) ==
    IF querySectionHeading(el) = 0 THEN <<>>
    ELSE substring0(trim(ChildrenOf(el)[querySectionHeading(el)].text), 60)

IsHeadingTag(tagName) == toLowerCase(tagName) \in { <<h>> : h \in HeadingTags }

\* the sources of a section title, in order
SectionTitleSources(el) ==
    << [has |-> InnerHeadingText(el) # <<>>, text |-> InnerHeadingText(el)],
       [has |-> getAttributeOrEmpty(el, "aria-label") # <<>>,
        text |-> getAttributeOrEmpty(el, "aria-label")],
       [has |-> getAttributeOrEmpty(el, "data-title") # <<>>,
        text |-> getAttributeOrEmpty(el, "data-title")],
       [has |-> /\ el["tagName"] \in { <<"H1">>, <<"H2">>, <<"H3">>, <<"H4">> }
                /\ trim(textContent(el)) # <<>>,
        text |-> substring0(trim(textContent(el)), 60)],
       [has |-> getAttributeOrEmpty(el, "id") # <<>>,
        text |-> TitleForm(getAttributeOrEmpty(el, "id"))],
       [has |-> TRUE, text |-> <<"Unknown Section">>] >>

\* C13 as stated: an element with no inner heading, aria-label or
\* data-title that is not itself a heading gets its id in title form as the
\* title; when a heading, an aria-label or a data-title is present the title
\* is taken from them and the formatted id is not used.
C13_TitleIsFormattedId ==
    [][ ComputesSectionInfo =>
          LET el == document[result'.element]
              title == result'.info.title
              present == << [has |-> querySectionHeading(el) # 0,
                             text |-> InnerHeadingText(el)],
                            [has |-> hasAttribute(el, "aria-label"),
                             text |-> getAttributeOrEmpty(el, "aria-label")],
                            [has |-> hasAttribute(el, "data-title"),
                             text |-> getAttributeOrEmpty(el, "data-title")],
                            [has |-> TRUE, text |-> <<>>] >>
          IN  /\ ( /\ querySectionHeading(el) = 0
                   /\ ~ hasAttribute(el, "aria-label")
                   /\ ~ hasAttribute(el, "data-title")
                   /\ ~ IsHeadingTag(el["tagName"]) )
                     => title = TitleForm(getAttributeOrEmpty(el, "id"))
              /\ ( \/ querySectionHeading(el) # 0
                   \/ hasAttribute(el, "aria-label")
                   \/ hasAttribute(el, "data-title") )
                     => \E n \in 1..3 : present[n].has /\ title = present[n].text
      ]_vars

\* C13 amended: the title getSectionInfo computes (on a call that finds no
\* cache entry for the element) is the first non-empty of: the trimmed text,
\* cut to 60 characters, of the first h1-h6 inside the element; its
\* aria-label; its data-title; the element's own trimmed text cut to 60
\* characters if it is an H1-H4; its id in title form ('-' and '_' to spaces,
\* a space at each lower-to-upper boundary, first letter of every word in
\* upper case); and 'Unknown Section' when the id is empty too.
C13_TitleIsFirstNonEmptySource ==
    [][ ComputesSectionInfo =>
          result'.info.title = FirstAvailable(SectionTitleSources(document[result'.element]))
      ]_vars

\* C13 witness: a section with the id our-team-section, or ourTeam_section,
\* and no heading, aria-label or data-title is titled 'Our Team Section'
C13_Witness ==
    /\ called = "AnchorInspector.getSectionInfo"
    /\ result.element # 0
    /\ LET el == document[result.element]
       IN  /\ el["tagName"] = <<"SECTION">>
           /\ getAttributeOrEmpty(el, "id") = OurTeamCamelId
           /\ querySectionHeading(el) = 0
           /\ ~ hasAttribute(el, "aria-label") /\ ~ hasAttribute(el, "data-title")
    /\ result.info.title = <<"Our", " ", "Team", " ", "Section">>

\* ------------------------------------------------------------------------
\* The specification of repeated classification: the three classifiers on
\* one link, calls on another link in between, and the page changing its
\* elements
\* ------------------------------------------------------------------------

\* links that are tracked, affiliate, in-page anchors and popup triggers in
\* several combinations
RepeatAnchors ==
    { ("href" :> <<"#">> \o OurTeamSectionId) @@ ("data-bs-toggle" :> <<"modal">>),
      ("href" :> <<"https://", "example.com", "/", "p", "?", "utm_source", "=", "a",
                   "&", "tag", "=", "a", "#">> \o OurTeamCamelId)
          @@ ("rel" :> <<"NoFollow", " ", "sponsored">>),
      ("href" :> <<"https://", "amzn.to", "/", "p">>) @@ ("class" :> <<"fancybox">>),
      ("href" :> <<"#", "\"">>) @@ ("data-target" :> <<"#">>)
          @@ ("data-bs-toggle" :> <<"modal">>),
      ("href" :> <<"#">> \o LoginModalId) @@ ("text" :> <<" ", "Subscribe", " ">>) }

TeamSection ==
    ("tagName" :> <<"SECTION">>) @@ ("id" :> OurTeamSectionId)
        @@ ("class" :> <<"panel">>)
        @@ ("children" :> <<LongParagraph>>)

StaffSection ==
    ("tagName" :> <<"DIV">>) @@ ("id" :> OurTeamCamelId)
        @@ ("aria-label" :> <<"Team">>) @@ ("class" :> <<"modal">>)
        @@ ("children" :> <<TeamHeading, LongParagraph>>)

InitRepeat ==
    /\ link \in RepeatAnchors
    /\ links = <<link, Anchor(<<"#">> \o OurTeamSectionId), Anchor(<<"#">> \o OurTeamCamelId)>>
    /\ document \in { <<TeamSection>>, <<StaffSection, TeamSection>> }
    /\ called = "none"
    /\ result = null
    /\ RestIdle

\* the call was a classification of the link under inspection
ClassifiedTheLink == called = "AnchorInspector.analyze" => result.link = 1

\* the caller takes the result and keeps it beside the earlier ones
TakeResult ==
    /\ called # "none"
    /\ called' = "none"
    /\ result' = null
    /\ recorded' = IF ClassifiedTheLink THEN (called :> result) @@ recorded ELSE recorded
    /\ UNCHANGED <<link, links, document, sectionCache, workerVars, scriptVars>>

NextRepeat ==
    \/ UTMParser_parseLink
    \/ UTMParser_detectAffiliate
    \/ AnchorInspector_analyze
    \/ PopupDetector_analyze
    \/ Page_setAriaLabel
    \/ Page_setId
    \/ TakeResult

SpecRepeat == InitRepeat /\ [][NextRepeat]_vars

\* C14: classifying the same link again with no DOM change since gives the
\* same verdict: a call of UTMParser.parse, UTMParser.detectAffiliate,
\* AnchorInspector.analyze or PopupDetector.analyze returns what the
\* previous call of that function on the link returned, whatever calls were
\* made before or in between.
C14_SameVerdictWithoutDomChange ==
    (called \in DOMAIN recorded /\ ClassifiedTheLink) => result = recorded[called]

\* C14 witness: a second AnchorInspector.analyze of the link, after an
\* analyze of another link, returns the verdict with the section info the
\* first one computed
C14_Witness ==
    /\ called = "AnchorInspector.analyze"
    /\ result.link = 1
    /\ called \in DOMAIN recorded
    /\ ~ result.outcome.threw
    /\ result.outcome.value # null
    /\ result.outcome.value.hasTarget
    /\ result.outcome.value.sectionInfo.description # null
    /\ Cardinality(DOMAIN sectionCache) > 1

\* ------------------------------------------------------------------------
\* The AnchorInspector specification: a page of anchors and target
\* elements, the calls of AnchorInspector, and the page changing its
\* elements between the calls
\* ------------------------------------------------------------------------

DataAnchored == ("tagName" :> <<"DIV">>) @@ ("data-anchor" :> OurTeamSectionId)

NamedAnchor == ("tagName" :> <<"A">>) @@ ("name" :> OurTeamSectionId)

AnchorSections ==
    { ("tagName" :> <<"SECTION">>) @@ i @@ l @@ c :
        i \in { "id" :> v : v \in IdTexts },
        l \in WithOrWithout("aria-label", AriaLabelTexts),
        c \in { NoAttrs, "children" :> <<TeamHeading>> } }

\* a page without, and a page with, an anchor whose id breaks the selector
AnchorPages ==
    { << Anchor(<<"#">> \o OurTeamSectionId),
         ("href" :> <<"#">> \o OurTeamCamelId) @@ ("text" :> <<" ", "Meet", " ">>),
         Anchor(<<"https://", "example.com", "/", "p", "#">> \o OurTeamSectionId),
         Anchor(<<"#">>),
         Anchor(<<"/", "p">>),
         Anchor(<<"/", "other", "#">> \o OurTeamSectionId),
         Anchor(<<"#", "missing">>) >>,
      << Anchor(<<"#">> \o OurTeamCamelId),
         Anchor(<<"#", "\"">>),
         Anchor(<<"#">> \o OurTeamSectionId) >> }

InitAnchor ==
    /\ links \in AnchorPages
    /\ link = links[1]
    /\ \E front \in { <<DataAnchored>>, <<DataAnchored, NamedAnchor>> },
          el \in AnchorSections : document = front \o <<el>>
    /\ called = "none"
    /\ result = null
    /\ RestIdle

NextAnchor ==
    \/ AnchorInspector_findTargetElement
    \/ AnchorInspector_getSectionInfo
    \/ AnchorInspector_analyze
    \/ AnchorInspector_scanPage
    \/ AnchorInspector_clearCache
    \/ Page_setAriaLabel
    \/ Page_setId
    \/ Page_setHeadingText
    \/ Return

SpecAnchor == InitAnchor /\ [][NextAnchor]_vars

\* ------------------------------------------------------------------------
\* Claims about AnchorInspector
\* ------------------------------------------------------------------------

\* every entry of the cache is still there, unchanged, after the step
EntriesKept ==
    \A e \in DOMAIN sectionCache :
        e \in DOMAIN sectionCache' /\ sectionCache'[e] = sectionCache[e]

\* the info this step must return for element e: the stored one, or one
\* computed from the element as it is now
StoredOrComputed(e) ==
    IF e \in DOMAIN sectionCache THEN sectionCache[e] ELSE computeSectionInfo(document[e])

\* C15: the section cache is never invalidated automatically.  Only
\* clearCache removes or changes an entry, whatever the page does to the
\* elements; getSectionInfo(e), and analyze and scanPage resolving to e,
\* return the stored info of e when there is one; and a getSectionInfo(e)
\* that finds none, as the first one after clearCache does, computes the
\* info from the current DOM.
C15_CacheKeptUntilCleared ==
    [][ /\ called' # "AnchorInspector.clearCache" => EntriesKept
        /\ (called = "none" /\ called' = "AnchorInspector.clearCache")
               => sectionCache' = EmptyMap
        /\ (called = "none" /\ called' = "AnchorInspector.getSectionInfo"
                /\ result'.element # 0)
               => result'.info = StoredOrComputed(result'.element)
        /\ (called = "none" /\ called' = "AnchorInspector.analyze"
                /\ ~ result'.outcome.threw /\ result'.outcome.value # null
                /\ result'.outcome.value.target # 0)
               => result'.outcome.value.sectionInfo
                      = StoredOrComputed(result'.outcome.value.target)
        /\ (called = "none" /\ called' = "AnchorInspector.scanPage"
                /\ ~ result'.outcome.threw)
               => \A n \in 1..Len(result'.outcome.value) :
                      LET data == result'.outcome.value[n].data
                      IN  (data.target # 0 /\ data.target \in DOMAIN sectionCache)
                              => data.sectionInfo = sectionCache[data.target]
      ]_vars

\* C15 witness: getSectionInfo returns an info that differs from the one the
\* element would get now, the page having changed the element since
C15_Witness ==
    /\ called = "AnchorInspector.getSectionInfo"
    /\ result.element # 0
    /\ result.info # computeSectionInfo(document[result.element])
    /\ result.info = sectionCache[result.element]

\* C16: a scan's result depends only on the DOM at the time of the scan: it
\* is the result a scan with a cache of its own, empty at its start, gives.
C16_ScanDependsOnlyOnCurrentDom ==
    called = "AnchorInspector.scanPage" =>
        result.outcome = anchorScanPage(links, document, EmptyMap).outcome

\* where an anchor id leads: the element with that id, else the first with
\* that name, else the first with that data-anchor, else 0
ResolvedTarget(doc, anchorId) ==
    LET with(attr) == { i \in 1..Len(doc) :
                          hasAttribute(doc[i], attr) /\ doc[i][attr] = anchorId }
        least(set) == CHOOSE i \in set : \A j \in set : i <= j
    IN  IF with("id") # {} THEN least(with("id"))
        ELSE IF with("name") # {} THEN least(with("name"))
        ELSE IF with("data-anchor") # {} THEN least(with("data-anchor"))
        ELSE 0

\* the step analyzed an anchor link with a non-empty anchor id
AnalyzedAnchorLink ==
    /\ called = "AnchorInspector.analyze"
    /\ isAnchorLink(links[result.link])
    /\ getAnchorId(links[result.link]) # <<>>

\* C18: for an anchor link with a non-empty anchor id, analyze returns a
\* non-null verdict; hasTarget is true exactly when the id resolves to an
\* element (by id, name or data-anchor), target is that element or null, and
\* sectionInfo is non-null exactly when hasTarget is true.
C18_MissingTargetIsNegativeVerdict ==
    AnalyzedAnchorLink =>
        /\ ~ result.outcome.threw
        /\ result.outcome.value # null
        /\ LET verdict == result.outcome.value
               target == ResolvedTarget(document, getAnchorId(links[result.link]))
           IN  /\ verdict.target = target
               /\ verdict.hasTarget = (target # 0)
               /\ (verdict.sectionInfo # null) = verdict.hasTarget

\* C17: no classifier call throws: UTMParser.parse, AnchorInspector.analyze
\* and PopupDetector.analyze return a verdict or null for every link.
C17_NoClassifierThrows ==
    /\ called = "analyze" => ~ result.threw
    /\ called = "AnchorInspector.analyze" => ~ result.outcome.threw

\* ------------------------------------------------------------------------
\* The background worker of Browsing Analytics: fetchHistoryData and its
\* cache.  Times are in minutes; a timestamp of 0 is the absent (null)
\* timestamp, as it is to the code, which tests timestamps for truthiness.
\* ------------------------------------------------------------------------

\* CACHE_DURATION = 5 * 60 * 1000 ms
CACHE_DURATION == 5

\* the cache check without the comparison of the days
CacheIsValid_ignoresDays(days, startTimestamp) ==
    /\ startTimestamp = 0
    /\ cachedData # null
    /\ clock - cacheTimestamp < CACHE_DURATION

\* the cache check of fetchHistoryData
CacheIsValid(days, startTimestamp) ==
    /\ startTimestamp = 0
    /\ cachedData # null
    /\ cachedDays = days
    /\ clock - cacheTimestamp < CACHE_DURATION

\* fetchHistoryData(days, startTimestamp, endTimestamp) up to its first
\* await: it returns the cached result, or issues the history query and
\* awaits the items; forReload is the reload the call serves, -1 when none
fetchHistoryData(days, startTimestamp, endTimestamp, forReload) ==
    /\ IF CacheIsValid(days, startTimestamp)
       THEN /\ called' = "fetchHistoryData"
            /\ result' = [days |-> days, startTimestamp |-> startTimestamp,
                          forReload |-> forReload, queried |-> FALSE,
                          value |-> cachedData]
            /\ UNCHANGED <<fetching, queries>>
       ELSE /\ queries < MaxQueries
            /\ queries' = queries + 1
            /\ fetching' = fetching \cup
                   { [days |-> days, startTimestamp |-> startTimestamp,
                      forReload |-> forReload, now |-> clock,
                      startTime |-> IF startTimestamp # 0 /\ endTimestamp # 0
                                    THEN startTimestamp ELSE clock - days * Day,
                      endTime |-> IF startTimestamp # 0 /\ endTimestamp # 0
                                  THEN endTimestamp ELSE clock,
                      query |-> queries + 1] }
            /\ UNCHANGED <<called, result>>
    /\ UNCHANGED cacheVars

\* the rest of a fetchHistoryData call: the history items have arrived, the
\* result is built, stored in the cache unless the range is custom, and
\* returned
fetchHistoryData_resume ==
    /\ called = "none"
    /\ \E f \in fetching :
           LET data == [fetchedAt |-> f.now,
                        dateRange |-> [start |-> f.startTime, end |-> f.endTime,
                                       days |-> f.days],
                        query |-> f.query]
           IN  /\ fetching' = fetching \ {f}
               /\ IF f.startTimestamp = 0
                  THEN /\ cachedData' = data
                       /\ cacheTimestamp' = f.now
                       /\ cachedDays' = f.days
                  ELSE UNCHANGED cacheVars
               /\ called' = "fetchHistoryData"
               /\ result' = [days |-> f.days, startTimestamp |-> f.startTimestamp,
                             forReload |-> f.forReload, queried |-> TRUE,
                             value |-> data]
    /\ UNCHANGED <<link, links, document, sectionCache, recorded, scriptVars, clock, queries, reload>>

\* the history API rejects: the call logs the error and returns null
fetchHistoryData_catch ==
    /\ called = "none"
    /\ \E f \in fetching :
           /\ fetching' = fetching \ {f}
           /\ called' = "fetchHistoryData"
           /\ result' = [days |-> f.days, startTimestamp |-> f.startTimestamp,
                         forReload |-> f.forReload, queried |-> TRUE, value |-> null]
    /\ UNCHANGED <<link, links, document, sectionCache, recorded, scriptVars, clock, cacheVars,
                   queries, reload>>

\* the values of message.days: absent (0) stands for the default of 30
MessageDays == {0, 7, 30}

\* a custom range of the dashboard
CustomStart == 10 * Day

CustomEnd == 20 * Day

\* the values of message.startTimestamp and message.endTimestamp
MessageRanges == { <<0, 0>>, <<CustomStart, CustomEnd>>, <<CustomStart, 0>> }

OnMessage_GET_ANALYTICS ==
    /\ called = "none"
    /\ \E d \in MessageDays, range \in MessageRanges :
           /\ fetchHistoryData(IF d = 0 THEN 30 ELSE d, range[1], range[2],
                               IF range[1] = 0 THEN reload ELSE -1)
           /\ reload' = IF range[1] = 0 THEN -1 ELSE reload
    /\ UNCHANGED <<link, links, document, sectionCache, recorded, scriptVars, clock>>

\* today's statistics: the range from the start of the day to now
OnMessage_GET_TODAY_STATS ==
    /\ called = "none"
    /\ fetchHistoryData(1, (clock \div Day) * Day, clock, -1)
    /\ UNCHANGED <<link, links, document, sectionCache, recorded, scriptVars, clock, reload>>

OnMessage_CLEAR_CACHE ==
    /\ called = "none"
    /\ cachedData' = null
    /\ cacheTimestamp' = 0
    /\ cachedDays' = 0
    /\ reload' = queries
    /\ UNCHANGED <<link, links, document, called, result, sectionCache, recorded, scriptVars,
                   clock, fetching, queries>>

\* a minute passes
Tick ==
    /\ called = "none"
    /\ clock < StartOfClock + MaxMinutes
    /\ clock' = clock + 1
    /\ UNCHANGED <<link, links, document, called, result, sectionCache, recorded, scriptVars,
                   cacheVars, fetching, queries, reload>>

InitAnalytics ==
    /\ link = NoAttrs
    /\ links = <<>>
    /\ document = <<>>
    /\ called = "none"
    /\ result = null
    /\ RestIdle

NextAnalytics ==
    \/ OnMessage_GET_ANALYTICS
    \/ OnMessage_GET_TODAY_STATS
    \/ OnMessage_CLEAR_CACHE
    \/ fetchHistoryData_resume
    \/ fetchHistoryData_catch
    \/ Tick
    \/ Return

SpecAnalytics == InitAnalytics /\ [][NextAnalytics]_vars

\* ------------------------------------------------------------------------
\* Claims about the analytics cache
\* ------------------------------------------------------------------------

\* the step is a fetchHistoryData call that returns at once, without a query
ReturnsWithoutQuery ==
    /\ called = "none"
    /\ called' = "fetchHistoryData"
    /\ ~ result'.queried

\* the step is a fetchHistoryData call that issues a history query
IssuesQuery == queries' = queries + 1

\* the call that this step's query belongs to
NewFetch == CHOOSE f \in fetching' : f \notin fetching

\* no custom start, a cached result, for the same days, younger than
\* CACHE_DURATION
CachedResultUsable(days, startTimestamp) ==
    /\ startTimestamp = 0
    /\ cachedData # null
    /\ cachedDays = days
    /\ clock - cacheTimestamp < CACHE_DURATION

\* the three cache variables describe one result
CacheDescribesOneResult ==
    cachedData # null =>
        /\ cachedData.dateRange.days = cachedDays
        /\ cachedData.fetchedAt = cacheTimestamp

\* C19: fetchHistoryData returns the cached result without querying history
\* if and only if no custom start timestamp is given, a cached result
\* exists, cachedDays equals the requested days and the cache is younger than
\* CACHE_DURATION; a call with a custom start never returns the cached
\* result and never modifies cachedData, cacheTimestamp or cachedDays; and
\* whenever cachedData is non-null its dateRange.days is cachedDays and its
\* fetchedAt is cacheTimestamp.
C19_CacheUsedIffValid ==
    [][ /\ ReturnsWithoutQuery =>
               /\ CachedResultUsable(result'.days, result'.startTimestamp)
               /\ result'.value = cachedData
        /\ IssuesQuery => ~ CachedResultUsable(NewFetch.days, NewFetch.startTimestamp)
        /\ (called' = "fetchHistoryData" /\ called = "none"
                /\ result'.startTimestamp # 0)
               => /\ result'.queried
                  /\ UNCHANGED cacheVars
        /\ (IssuesQuery /\ NewFetch.startTimestamp # 0) => UNCHANGED cacheVars
        /\ CacheDescribesOneResult'
      ]_vars

\* C19 witness: a request for 30 days is answered from the cache, which
\* holds a result of 30 days fetched some minutes before, while a fetch for
\* a custom range is in flight
C19_Witness ==
    /\ called = "fetchHistoryData"
    /\ ~ result.queried
    /\ result.value # null
    /\ result.value.dateRange.days = 30
    /\ clock > cacheTimestamp
    /\ \E f \in fetching : f.startTimestamp # 0

\* C20: the first GET_ANALYTICS request for a non-custom range that the
\* worker handles after a CLEAR_CACHE is answered with data of a history
\* query issued after the clear.
C20_ReloadQueriesAfterClear ==
    (called = "fetchHistoryData" /\ result.forReload >= 0 /\ result.value # null)
        => result.value.query > result.forReload

\* ------------------------------------------------------------------------
\* PopupDetector.scanPage
\* ------------------------------------------------------------------------

\* the element matches 'a[href], button, [role="button"]'; of the elements
\* of links, those with an href are a elements
matchesTriggerSelector(el) ==
    \/ hasAttribute(el, "href")
    \/ getAttributeOrEmpty(el, "tagName") = <<"BUTTON">>
    \/ getAttributeOrEmpty(el, "role") = <<"button">>

\* data.popupElement?.id || link.getAttribute('href') || Math.random() for
\* the trigger at position i: a text, or a number no other trigger draws
dedupKey(doc, popupElement, el, i) ==
    LET id == ElementAttrOrEmpty(doc, popupElement, "id")
        href == getAttributeOrEmpty(el, "href")
    IN  IF id # <<>> THEN [random |-> 0, text |-> id]
        ELSE IF href # <<>> THEN [random |-> 0, text |-> href]
        ELSE [random |-> i, text |-> <<>>]

RECURSIVE popupScanFrom(_, _, _, _, _)

\* one turn of the loop of PopupDetector.scanPage, for the element at
\* position i with what analyze did on it
popupScanWith(page, doc, i, seen, popups, data) ==
    IF data.threw THEN Threw
    ELSE IF data.value = null
    THEN popupScanFrom(page, doc, i + 1, seen, popups)
    ELSE LET key == dedupKey(doc, data.value.popupElement, page[i], i)
         IN  IF key \in seen
             THEN popupScanFrom(page, doc, i + 1, seen, popups)
             ELSE popupScanFrom(page, doc, i + 1, seen \cup {key},
                      Append(popups,
                             [element |-> i,
                              href |-> getAttributeOrEmpty(page[i], "href"),
                              data |-> data.value]))

\* PopupDetector.scanPage over the page from position i on: the popups
\* collected, or the exception of the first analyze that throws
popupScanFrom(page, doc, i, seen, popups) ==
    IF i > Len(page) THEN Returned(popups)
    ELSE IF ~ matchesTriggerSelector(page[i])
    THEN popupScanFrom(page, doc, i + 1, seen, popups)
    ELSE popupScanWith(page, doc, i, seen, popups, analyze(page[i], doc))

popupScanPage(page, doc) == popupScanFrom(page, doc, 1, {}, <<>>)

PopupDetector_scanPage ==
    /\ called = "none"
    /\ called' = "PopupDetector.scanPage"
    /\ result' = popupScanPage(links, document)
    /\ UNCHANGED <<link, links, document, others>>

\* ------------------------------------------------------------------------
\* The page scan specification: a page of three elements that are links or
\* buttons, popup elements with and without an id, and the scans of the
\* three modules
\* ------------------------------------------------------------------------

Button(attrs) == ("tagName" :> <<"BUTTON">>) @@ attrs

\* a bottom sheet without id
Sheet == "class" :> <<"sheet">>

Div(attrs) == ("tagName" :> <<"DIV">>) @@ attrs

ScanDocument == <<Div(LoginModal), Div(Panel), Div(Sheet)>>

OpensPanel == ("data-bs-toggle" :> <<"modal">>) @@ ("data-bs-target" :> <<".", "panel">>)

OpensSheet == ("data-bs-toggle" :> <<"modal">>) @@ ("data-bs-target" :> <<".", "sheet">>)

ScanElements ==
    { Anchor(<<"#">> \o LoginModalId),
      Button(("data-bs-toggle" :> <<"modal">>) @@ ("aria-controls" :> LoginModalId)),
      Button(OpensPanel),
      Anchor(<<"#">>) @@ OpensPanel,
      Anchor(<<"#">>) @@ OpensSheet,
      Button("data-popup" :> <<>>),
      Anchor(<<"/", "p", "?", "utm_source", "=", "x", "#", "missing">>),
      Anchor(<<"https://", "amzn.to", "/", "p">>),
      Anchor(<<"#", "\"">>),
      Anchor(<<"#", "x">>) @@ ("data-bs-toggle" :> <<"modal">>)
          @@ ("data-target" :> <<"#">>) }

InitScan ==
    /\ links \in [1..3 -> ScanElements]
    /\ link = links[1]
    /\ document = ScanDocument
    /\ called = "none"
    /\ result = null
    /\ RestIdle

NextScan ==
    \/ PopupDetector_scanPage
    \/ Return

SpecScan == InitScan /\ [][NextScan]_vars

\* ------------------------------------------------------------------------
\* Claims about PopupDetector.scanPage
\* ------------------------------------------------------------------------

\* the popup elements the triggers of the page resolve to
ResolvedPopups(page, doc) ==
    { analyze(page[i], doc).value.popupElement :
        i \in { j \in 1..Len(page) :
                  /\ matchesTriggerSelector(page[j])
                  /\ ~ analyze(page[j], doc).threw
                  /\ analyze(page[j], doc).value # null
                  /\ analyze(page[j], doc).value.popupElement # 0 } }

\* the entries of a scan result that name the popup element e
EntriesFor(popups, e) ==
    { n \in 1..Len(popups) : popups[n].data.popupElement = e }

\* C22: scanPage de-duplicates by popup element: of the triggers that
\* resolve to one popup element exactly one is reported, whether or not the
\* element has an id, so that no two entries name the same popup element and
\* triggers of different popup elements are both reported.
C22_OneEntryPerPopupElement ==
    (called = "PopupDetector.scanPage" /\ ~ result.threw) =>
        \A e \in ResolvedPopups(links, document) :
            Cardinality(EntriesFor(result.value, e)) = 1

\* ------------------------------------------------------------------------
\* TooltipManager, the version with a delayed hide.  A timer is named by its
\* id; the timers started and not yet fired or cancelled are in timeouts,
\* and any of them may be the next to fire, since the delays are the
\* callers' choice.
\* ------------------------------------------------------------------------

\* the class list of the tooltip element after the element's
\* classList.remove('visible') of hide, when there is an element
HiddenClasses == IF tooltipElement # 0 THEN tooltipClasses \ {"visible"} ELSE tooltipClasses

\* hide() and the callback of hide(delay): the tooltip element, if any,
\* loses the class 'visible' and isVisible becomes false
hideNow ==
    /\ tooltipClasses' = HiddenClasses
    /\ isVisible' = IF tooltipElement # 0 THEN FALSE ELSE isVisible

\* show(data, x, y); content tells whether the rendered content is non-empty
TooltipManager_show ==
    \E content \in BOOLEAN :
        /\ tooltipElement' = 1
        /\ timeouts' = timeouts \ {hideTimeout}
        /\ hideTimeout' = 0
        /\ IF content
           THEN /\ tooltipClasses' =
                       (IF tooltipElement = 0 THEN {"link-inspector-tooltip"}
                        ELSE tooltipClasses) \cup {"visible"}
                /\ isVisible' = TRUE
           ELSE /\ tooltipClasses' =
                       (IF tooltipElement = 0 THEN {"link-inspector-tooltip"}
                        ELSE tooltipClasses) \ {"visible"}
                /\ isVisible' = FALSE
        /\ keptVisible' = content
        /\ UNCHANGED timeoutIds

\* hide() and hide(0)
TooltipManager_hide ==
    /\ hideNow
    /\ keptVisible' = FALSE
    /\ UNCHANGED <<tooltipElement, hideTimeout, timeouts, timeoutIds>>

\* hide(delay) with a positive delay: a new timer, whose id replaces
\* whatever hideTimeout held
TooltipManager_hideLater ==
    /\ timeoutIds < MaxTimeouts
    /\ timeoutIds' = timeoutIds + 1
    /\ hideTimeout' = timeoutIds + 1
    /\ timeouts' = timeouts \cup {timeoutIds + 1}
    /\ keptVisible' = FALSE
    /\ UNCHANGED <<tooltipElement, tooltipClasses, isVisible>>

\* the callback of a timer of hide(delay)
TooltipManager_hideTimeoutFires ==
    \E id \in timeouts :
        /\ timeouts' = timeouts \ {id}
        /\ hideNow
        /\ UNCHANGED <<tooltipElement, hideTimeout, timeoutIds, keptVisible>>

TooltipManager_destroy ==
    /\ IF tooltipElement # 0
       THEN /\ tooltipElement' = 0
            /\ tooltipClasses' = {}
            /\ isVisible' = FALSE
       ELSE UNCHANGED <<tooltipElement, tooltipClasses, isVisible>>
    /\ keptVisible' = FALSE
    /\ UNCHANGED <<hideTimeout, timeouts, timeoutIds>>

\* the page on which the tooltip is shown stays as it is
PageUntouched == UNCHANGED <<link, links, document, called, result, sectionCache,
                             recorded, workerVars, highlightVars, exchangeVars, contentVars>>

InitTooltip ==
    /\ link = PlainAnchor
    /\ links = <<link>>
    /\ document = <<>>
    /\ called = "none"
    /\ result = null
    /\ RestIdle

NextTooltip ==
    \/ TooltipManager_show /\ PageUntouched
    \/ TooltipManager_hide /\ PageUntouched
    \/ TooltipManager_hideLater /\ PageUntouched
    \/ TooltipManager_hideTimeoutFires /\ PageUntouched
    \/ TooltipManager_destroy /\ PageUntouched

SpecTooltip == InitTooltip /\ [][NextTooltip]_vars

\* ------------------------------------------------------------------------
\* Claims about TooltipManager
\* ------------------------------------------------------------------------

\* isVisible = true implies that the tooltip element exists and carries the
\* class 'visible'
VisibleMeansShown ==
    isVisible => (tooltipElement # 0 /\ "visible" \in tooltipClasses)

\* C27: a show() with non-empty content cancels every pending delayed hide:
\* after it the tooltip stays visible (isVisible = true and class 'visible'
\* set) until the next hide() or destroy() call, whatever hide(delay) calls
\* came before it; and in every state isVisible = true implies that the
\* tooltip element exists and carries the class 'visible'.
C27_ShowCancelsPendingHides ==
    /\ keptVisible => (isVisible /\ tooltipElement # 0 /\ "visible" \in tooltipClasses)
    /\ VisibleMeansShown

\* ------------------------------------------------------------------------
\* The content script: analyzeLink, the overlay of badges, the keyboard
\* shortcuts and the message handler.  The toast of showCopyFeedback and the
\* injected style sheet are left out: nothing of the script reads them.
\* ------------------------------------------------------------------------

\* the object analyzeLink builds from what the three classifiers did
linkData(utm, anchor, popup) ==
    IF anchor.outcome.threw
    THEN [utm |-> utm, anchor |-> null, popup |-> null, cache |-> anchor.cache]
    ELSE [utm |-> utm, anchor |-> anchor.outcome.value,
          popup |-> IF popup.threw THEN null ELSE popup.value,
          cache |-> anchor.cache]

\* analyzeLink(link): the three verdicts, null for a classifier that is not
\* reached because an earlier one threw, and the section cache left behind
analyzeLink(el, doc, cache) ==
    linkData(parse(hrefOf(el["href"]), el), anchorAnalyze(el, doc, cache), analyze(el, doc))

\* a badge; the label of an anchor or popup badge is a pictogram, left out
Badge(type, label, color) == [type |-> type, label |-> label, color |-> color]

\* the badges createOverlays pushes for one link
badgesFor(s, data) ==
    (IF s.showUtm /\ data.utm.hasTracking
     THEN <<Badge("utm", "UTM", "#8b5cf6")>> ELSE <<>>)
    \o (IF s.showUtm /\ data.utm.affiliate # null
        THEN <<Badge("affiliate", data.utm.affiliate.network, "#10b981")>> ELSE <<>>)
    \o (IF s.showAnchors /\ data.anchor # null
        THEN <<Badge("anchor", "", IF data.anchor.hasTarget THEN "#22c55e" ELSE "#ef4444")>>
        ELSE <<>>)
    \o (IF s.showPopups /\ data.popup # null
        THEN <<Badge("popup", "", "#ec4899")>> ELSE <<>>)

\* the badge containers among the children of the element at position l
ContainersOf(containers, l) ==
    IF l \in DOMAIN containers THEN containers[l] ELSE <<>>

\* the overlay without any badge container
NoOverlay(cache) == [overlayElements |-> <<>>, badgeContainers |-> EmptyMap, cache |-> cache]

\* removeOverlays(): every container of overlayElements and every
\* '.lip-badge-container' of the document is removed
removeOverlays(overlay) == NoOverlay(overlay.cache)

\* one turn of the links.forEach of createOverlays, for the link at position
\* i with the data analyzeLink gave; a container is named by its link and its
\* badges
overlayLink(overlay, i, s, data) ==
    LET badges == badgesFor(s, data)
        container == [link |-> i, badges |-> badges]
    IN  IF Len(badges) > 0
        THEN [overlayElements |-> Append(overlay.overlayElements, container),
              badgeContainers |->
                  (i :> Append(ContainersOf(overlay.badgeContainers, i), container))
                      @@ overlay.badgeContainers,
              cache |-> data.cache]
        ELSE [overlay EXCEPT !.cache = data.cache]

\* the links.forEach of createOverlays from position i on
RECURSIVE createOverlaysFrom(_, _, _, _, _)
createOverlaysFrom(page, doc, s, overlay, i) ==
    IF i > Len(page) THEN overlay
    ELSE IF ~ hasAttribute(page[i], "href")
    THEN createOverlaysFrom(page, doc, s, overlay, i + 1)
    ELSE createOverlaysFrom(page, doc, s,
             overlayLink(overlay, i, s, analyzeLink(page[i], doc, overlay.cache)), i + 1)

createOverlays(page, doc, s, overlay) ==
    createOverlaysFrom(page, doc, s, removeOverlays(overlay), 1)

\* the overlay as the content script holds it now
Overlay ==
    [overlayElements |-> overlayElements, badgeContainers |-> badgeContainers,
     cache |-> sectionCache]

\* the overlay becomes what the call left
OverlayBecomes(overlay) ==
    /\ overlayElements' = overlay.overlayElements
    /\ badgeContainers' = overlay.badgeContainers
    /\ sectionCache' = overlay.cache

\* toggleOverlayMode()
toggleOverlayMode ==
    /\ overlayMode' = ~ overlayMode
    /\ IF ~ overlayMode
       THEN OverlayBecomes(createOverlays(links, document, settings, Overlay))
       ELSE OverlayBecomes(removeOverlays(Overlay))

\* what the key handlers and timers of the content script leave alone
KeyLeaves == UNCHANGED <<link, links, document, recorded, workerVars, highlightVars, exchangeVars, settings, getSettings>>

\* keydown of Alt+L
KeyDown_AltL ==
    /\ called = "none"
    /\ called' = "keydown Alt+L"
    /\ result' = undefined
    /\ toggleOverlayMode
    /\ KeyLeaves
    /\ UNCHANGED tooltipVars

\* keydown of Escape: the tooltip is hidden, the overlay switched off
KeyDown_Escape ==
    /\ called = "none"
    /\ called' = "keydown Escape"
    /\ result' = undefined
    /\ TooltipManager_hide
    /\ IF overlayMode THEN toggleOverlayMode
       ELSE UNCHANGED <<overlayMode, overlayElements, badgeContainers, sectionCache>>
    /\ KeyLeaves

\* window.location.href and document.title of the page
PageUrl == Origin \o LocationPathname

PageTitle == <<"Page">>

\* the a[href] elements of the page
AnchorsOf(page) == SelectSeq(page, LAMBDA el : hasAttribute(el, "href"))

\* item.sectionInfo?.title || item.anchorId
sectionTitleOf(item) ==
    IF item.sectionInfo # null /\ item.sectionInfo.title # <<>>
    THEN item.sectionInfo.title ELSE item.anchorId

\* the object collectPageData builds from what the three scans did.  The
\* text of a tracking link is left out of the entries.
pageDataFrom(utmResults, anchorScan, popupScan) ==
    LET anchorResults == IF anchorScan.outcome.threw THEN <<>> ELSE anchorScan.outcome.value
        popupResults == IF anchorScan.outcome.threw \/ popupScan.threw
                        THEN <<>> ELSE popupScan.value
    IN  [data |->
            [url |-> PageUrl,
             title |-> PageTitle,
             utmLinks |-> [n \in 1..Len(utmResults) |->
                              [href |-> utmResults[n].href,
                               parameters |-> utmResults[n].parsed.parameters,
                               hasTracking |-> utmResults[n].parsed.hasTracking,
                               affiliate |-> utmResults[n].parsed.affiliate]],
             anchors |-> [n \in 1..Len(anchorResults) |->
                             [href |-> anchorResults[n].href,
                              anchorId |-> anchorResults[n].data.anchorId,
                              hasTarget |-> anchorResults[n].data.hasTarget,
                              sectionTitle |-> sectionTitleOf(anchorResults[n].data)]],
             popups |-> [n \in 1..Len(popupResults) |->
                            [href |-> popupResults[n].href,
                             typeName |-> popupResults[n].data.typeName,
                             purposeName |-> popupResults[n].data.purposeName,
                             description |-> popupResults[n].data.description]]],
         threw |-> FALSE,
         cache |-> anchorScan.cache]

\* collectPageData(): the data, with the lists the scans filled before one
\* of them threw, and the section cache left behind
collectPageData(page, doc, cache) ==
    pageDataFrom(scanPage(AnchorsOf(page)), anchorScanPage(page, doc, cache),
                 popupScanPage(page, doc))

\* the response of handleMessage's catch block; e.message is left out
ErrorResponse ==
    [error |-> TRUE, url |-> PageUrl, title |-> PageTitle,
     utmLinks |-> <<>>, anchors |-> <<>>, popups |-> <<>>]

\* what handleMessage answers to COLLECT_PAGE_DATA
collectResponse(collected) ==
    IF collected.threw THEN ErrorResponse ELSE collected.data

\* a handler that answers every message it does not know with a failure
responsesTo_answersUnknown(message, collected) ==
    IF message.type = "COLLECT_PAGE_DATA" THEN <<collectResponse(collected)>>
    ELSE IF message.type = "SETTINGS_UPDATED" THEN <<[success |-> TRUE]>>
    ELSE <<[success |-> FALSE]>>

\* the calls of sendResponse that handleMessage makes, in order
responsesTo(message, collected) ==
    IF message.type = "COLLECT_PAGE_DATA" THEN <<collectResponse(collected)>>
    ELSE IF message.type = "SETTINGS_UPDATED" THEN <<[success |-> TRUE]>>
    ELSE <<>>

\* handleMessage(message, sender, sendResponse); the messages on their way
\* are the caller's to update
handleMessage(message) ==
    /\ called = "none"
    /\ called' = "handleMessage"
    /\ IF message.type = "COLLECT_PAGE_DATA"
       THEN \E collected \in {collectPageData(links, document, sectionCache)} :
                /\ result' = [message |-> message,
                              responses |-> responsesTo(message, collected),
                              returned |-> TRUE]
                /\ sectionCache' = collected.cache
                /\ UNCHANGED <<settings, overlayMode, overlayElements, badgeContainers>>
       ELSE IF message.type = "SETTINGS_UPDATED"
       THEN /\ settings' = message.settings
            /\ IF overlayMode
               THEN OverlayBecomes(createOverlays(links, document, message.settings, Overlay))
               ELSE UNCHANGED <<overlayElements, badgeContainers, sectionCache>>
            /\ result' = [message |-> message,
                          responses |-> responsesTo(message, null),
                          returned |-> TRUE]
            /\ UNCHANGED overlayMode
       ELSE /\ result' = [message |-> message,
                          responses |-> responsesTo(message, null),
                          returned |-> FALSE]
            /\ UNCHANGED <<settings, overlayMode, overlayElements, badgeContainers,
                           sectionCache>>
    /\ UNCHANGED <<link, links, document, recorded, workerVars, highlightVars,
                   tooltipVars, getSettings>>

\* the response to the GET_SETTINGS request of init arrives
ContentScript_settingsLoaded ==
    /\ called = "none"
    /\ getSettings.at = "response"
    /\ settings' = getSettings.settings
    /\ getSettings' = [getSettings EXCEPT !.at = "done"]
    /\ UNCHANGED <<link, links, document, called, result, sectionCache, recorded,
                   workerVars, highlightVars, exchangeVars, tooltipVars, overlayMode, overlayElements, badgeContainers>>

\* ------------------------------------------------------------------------
\* The content script specification: a page of two elements, the shortcuts
\* and the messages in any order, the settings request of init answered at
\* any time
\* ------------------------------------------------------------------------

UtmOff == [DEFAULT_SETTINGS EXCEPT !.showUtm = FALSE]

OnlyUtm == [DEFAULT_SETTINGS EXCEPT !.enabled = FALSE, !.showAnchors = FALSE,
                                    !.showPopups = FALSE]

SettingsChoices == {DEFAULT_SETTINGS, UtmOff, OnlyUtm}

Messages ==
    {[type |-> "COLLECT_PAGE_DATA"], [type |-> "PING"]}
        \cup { [type |-> "SETTINGS_UPDATED", settings |-> s] : s \in SettingsChoices }

\* a message of any kind reaches the content script
ContentScript_onMessage ==
    /\ \E message \in Messages : handleMessage(message)
    /\ UNCHANGED exchangeVars

\* the content script's init has run: its settings are the initial ones and
\* the response to its GET_SETTINGS request is on its way
InitOverlay ==
    /\ links \in [1..2 -> ScanElements]
    /\ link = links[1]
    /\ document = ScanDocument
    /\ called = "none"
    /\ result = null
    /\ sectionCache = EmptyMap
    /\ recorded = EmptyMap
    /\ WorkerIdle
    /\ TooltipIdle
    /\ HighlightIdle
    /\ ExchangeIdle
    /\ settings = DEFAULT_SETTINGS
    /\ overlayMode = FALSE
    /\ overlayElements = <<>>
    /\ badgeContainers = EmptyMap
    /\ \E s \in SettingsChoices : getSettings = [at |-> "response", settings |-> s]

NextOverlay ==
    \/ KeyDown_AltL
    \/ KeyDown_Escape
    \/ ContentScript_onMessage
    \/ ContentScript_settingsLoaded
    \/ Return

SpecOverlay == InitOverlay /\ [][NextOverlay]_vars

\* ------------------------------------------------------------------------
\* Claims about the content script
\* ------------------------------------------------------------------------

\* the hrefs of the entries of a list of the page data
HrefsOf(list) == [n \in 1..Len(list) |-> list[n].href]

\* the resolved hrefs of the links with a tracking parameter or an affiliate
TrackedHrefs(page) ==
    LET tracked(el) == LET parsed == parse(hrefOf(el["href"]), el)
                       IN  parsed.hasTracking \/ parsed.affiliate # null
        found == SelectSeq(AnchorsOf(page), tracked)
    IN  [n \in 1..Len(found) |-> hrefOf(found[n]["href"])]

\* the response is page data: url, title and the three lists, no error; its
\* tracking links are those of the page
IsPageData(response) ==
    /\ DOMAIN response = {"url", "title", "utmLinks", "anchors", "popups"}
    /\ response.url = PageUrl
    /\ response.title = PageTitle
    /\ HrefsOf(response.utmLinks) = TrackedHrefs(links)

\* the response carries an error field and empty lists
IsErrorResponse(response) ==
    /\ "error" \in DOMAIN response
    /\ response.utmLinks = <<>>
    /\ response.anchors = <<>>
    /\ response.popups = <<>>

\* C21: for every COLLECT_PAGE_DATA message handleMessage calls sendResponse
\* exactly once, with the collected page data or with an object carrying an
\* error field and empty utmLinks, anchors and popups lists; for a message of
\* unknown type it never calls sendResponse and returns false.
C21_CollectAlwaysAnswersOnce ==
    called = "handleMessage" =>
        /\ result.message.type = "COLLECT_PAGE_DATA" =>
               /\ Len(result.responses) = 1
               /\ IsPageData(result.responses[1]) \/ IsErrorResponse(result.responses[1])
               /\ result.returned
        /\ result.message.type \notin {"COLLECT_PAGE_DATA", "SETTINGS_UPDATED"} =>
               /\ result.responses = <<>>
               /\ ~ result.returned

\* a COLLECT_PAGE_DATA message is answered with the tracking links of the
\* page although the popup scan threw
C21_Witness ==
    /\ called = "handleMessage"
    /\ result.message.type = "COLLECT_PAGE_DATA"
    /\ popupScanPage(links, document).threw
    /\ Len(result.responses) = 1
    /\ Len(result.responses[1].utmLinks) > 0
    /\ result.responses[1].popups = <<>>

\* the types of the badges the settings s allow for the link el
AllowedBadges(s, el, doc) ==
    LET data == analyzeLink(el, doc, EmptyMap)
    IN  { type \in {"utm", "affiliate", "anchor", "popup"} :
            \/ type = "utm" /\ s.showUtm /\ data.utm.hasTracking
            \/ type = "affiliate" /\ s.showUtm /\ data.utm.affiliate # null
            \/ type = "anchor" /\ s.showAnchors /\ data.anchor # null
            \/ type = "popup" /\ s.showPopups /\ data.popup # null }

BadgeTypes(container) == { container.badges[n].type : n \in 1..Len(container.badges) }

\* while the overlay is off there is no badge container
OffMeansNoBadges ==
    ~ overlayMode =>
        /\ overlayElements = <<>>
        /\ \A l \in 1..Len(links) : ContainersOf(badgeContainers, l) = <<>>

\* no link carries two badge containers
NoDuplicateBadges ==
    \A l \in 1..Len(links) : Len(ContainersOf(badgeContainers, l)) <= 1

\* the badges of every container are those the current settings allow
BadgesFollowSettings ==
    \A l \in DOMAIN badgeContainers :
        \A n \in 1..Len(badgeContainers[l]) :
            BadgeTypes(badgeContainers[l][n]) = AllowedBadges(settings, links[l], document)

\* C26: overlayMode = false implies that overlayElements is empty and that no
\* badge container exists in the document; Escape always leaves overlayMode =
\* false; every link carries at most one badge container, whose badges are
\* exactly those allowed by the current settings.
C26_OverlayFollowsModeAndSettings ==
    /\ OffMeansNoBadges
    /\ called = "keydown Escape" => ~ overlayMode
    /\ NoDuplicateBadges
    /\ BadgesFollowSettings

\* ------------------------------------------------------------------------
\* The content script: anchor highlighting.  A pending timer is known by
\* what its callback does; the timers fire in any order, since the events
\* that start them come at any time.
\* ------------------------------------------------------------------------

\* the highlighting as the content script and the document hold it now
Highlighting ==
    [current |-> currentHighlightedSection, class |-> highlightClass,
     timeouts |-> highlightTimeouts]

\* removeAnchorHighlight()
removeAnchorHighlight(hl) == [hl EXCEPT !.current = 0, !.class = {}]

\* the target of highlightAnchorTarget: the element with the id, else the
\* first with the name; querySelector throws for some ids
highlightTarget(doc, hash) ==
    LET targetId == SubSeq(hash, 2, Len(hash))
    IN  IF getElementById(doc, targetId) # 0
        THEN Returned(getElementById(doc, targetId))
        ELSE queryAttributeEquals(doc, "name", targetId)

\* highlightAnchorTarget without the removal of the previous highlight
highlightAnchorTarget_keepsPrevious(doc, hash, hl) ==
    IF Len(hash) <= 1 THEN hl
    ELSE LET target == highlightTarget(doc, hash)
         IN  IF target.threw \/ target.value = 0 THEN hl
             ELSE [current |-> target.value,
                   class |-> hl.class \cup {target.value},
                   timeouts |-> hl.timeouts + 1]

\* highlightAnchorTarget(hash): the highlighting it leaves
highlightAnchorTarget(doc, hash, hl) ==
    IF Len(hash) <= 1 THEN hl
    ELSE LET target == highlightTarget(doc, hash)
         IN  IF target.threw \/ target.value = 0 THEN hl
             ELSE [current |-> target.value,
                   class |-> removeAnchorHighlight(hl).class \cup {target.value},
                   timeouts |-> hl.timeouts + 1]

HighlightingBecomes(hl) ==
    /\ currentHighlightedSection' = hl.current
    /\ highlightClass' = hl.class
    /\ highlightTimeouts' = hl.timeouts

\* what the handlers and timers of the highlighting leave alone
HighlightLeaves ==
    UNCHANGED <<link, links, document, called, result, sectionCache, recorded,
                workerVars, tooltipVars, contentVars, exchangeVars>>

\* the number of pending timers that will highlight the target of hash
PendingStarts(hash) == IF hash \in DOMAIN startTimeouts THEN startTimeouts[hash] ELSE 0

HighlightHashes ==
    { <<>>, <<"#">> \o OurTeamSectionId, <<"#">> \o OurTeamCamelId, <<"#", "Staff">>,
      <<"#", "missing">>, <<"#", "\"">> }

\* the hashchange listener; hash is window.location.hash after the change
Window_hashchange ==
    \E hash \in HighlightHashes :
        /\ highlightEvents < MaxHighlightEvents
        /\ highlightEvents' = highlightEvents + 1
        /\ IF hash # <<>>
           THEN HighlightingBecomes(highlightAnchorTarget(document, hash, Highlighting))
           ELSE UNCHANGED <<currentHighlightedSection, highlightClass, highlightTimeouts>>
        /\ UNCHANGED startTimeouts
        /\ HighlightLeaves

\* the hash the click listener takes from the link, empty for none
clickTargetHash(el) ==
    LET href == getAttributeOrEmpty(el, "href")
    IN  IF href = <<>> THEN <<>>
        ELSE IF href[1] = "#" THEN href
        ELSE IF ~ URLParses(href) THEN <<>>
        ELSE IF pathnameOf(href) = LocationPathname THEN hashOf(href)
        ELSE <<>>

\* the click listener, for a click on or in a link whose href holds a "#"
Document_click ==
    \E l \in 1..Len(links) :
        /\ includes(getAttributeOrEmpty(links[l], "href"), <<"#">>)
        /\ highlightEvents < MaxHighlightEvents
        /\ highlightEvents' = highlightEvents + 1
        /\ LET targetHash == clickTargetHash(links[l])
           IN  IF Len(targetHash) > 1
               THEN startTimeouts' =
                        (targetHash :> PendingStarts(targetHash) + 1) @@ startTimeouts
               ELSE UNCHANGED startTimeouts
        /\ UNCHANGED <<currentHighlightedSection, highlightClass, highlightTimeouts>>
        /\ HighlightLeaves

\* a timer started by a click, or by init for the hash the page was loaded
\* with, fires
StartTimeout_fires ==
    \E hash \in DOMAIN startTimeouts :
        /\ startTimeouts[hash] > 0
        /\ startTimeouts' = [startTimeouts EXCEPT ![hash] = @ - 1]
        /\ HighlightingBecomes(highlightAnchorTarget(document, hash, Highlighting))
        /\ UNCHANGED highlightEvents
        /\ HighlightLeaves

\* a timer started by highlightAnchorTarget fires, three seconds after
HighlightTimeout_fires ==
    /\ highlightTimeouts > 0
    /\ HighlightingBecomes([removeAnchorHighlight(Highlighting)
                               EXCEPT !.timeouts = highlightTimeouts - 1])
    /\ UNCHANGED <<startTimeouts, highlightEvents>>
    /\ HighlightLeaves

\* ------------------------------------------------------------------------
\* The highlighting specification: a page of anchors and three targets, one
\* of them found by its name; init has run and, when the page was loaded
\* with a hash, has started its timer.  Timers that are due fire.
\* ------------------------------------------------------------------------

HighlightPage ==
    << Anchor(<<"#">> \o OurTeamSectionId),
       Anchor(<<"https://", "example.com", "/", "p", "#">> \o OurTeamCamelId),
       Anchor(<<"#", "Staff">>),
       Anchor(<<"#">>),
       Anchor(<<"/", "other", "#">> \o OurTeamSectionId),
       Anchor(<<"#", "\"">>) >>

HighlightDocument ==
    << ("tagName" :> <<"SECTION">>) @@ ("id" :> OurTeamSectionId),
       ("tagName" :> <<"A">>) @@ ("name" :> <<"Staff">>),
       ("tagName" :> <<"H2">>) @@ ("id" :> OurTeamCamelId) >>

InitHighlight ==
    /\ links = HighlightPage
    /\ link = links[1]
    /\ document = HighlightDocument
    /\ called = "none"
    /\ result = null
    /\ sectionCache = EmptyMap
    /\ recorded = EmptyMap
    /\ WorkerIdle
    /\ TooltipIdle
    /\ ContentIdle
    /\ ExchangeIdle
    /\ currentHighlightedSection = 0
    /\ highlightClass = {}
    /\ highlightTimeouts = 0
    /\ startTimeouts \in { EmptyMap } \cup { hash :> 1 : hash \in HighlightHashes \ {<<>>} }
    /\ highlightEvents = 0

NextHighlight ==
    \/ Window_hashchange
    \/ Document_click
    \/ StartTimeout_fires
    \/ HighlightTimeout_fires

SpecHighlight ==
    /\ InitHighlight
    /\ [][NextHighlight]_vars
    /\ WF_vars(StartTimeout_fires)
    /\ WF_vars(HighlightTimeout_fires)

\* ------------------------------------------------------------------------
\* Claims about the anchor highlighting
\* ------------------------------------------------------------------------

\* at most one element carries the class, and it is the recorded one
OneHighlight ==
    /\ Cardinality(highlightClass) <= 1
    /\ highlightClass \subseteq {currentHighlightedSection}

\* an element that gains the class is the only one to carry it
NewHighlightReplaces ==
    \A e \in 1..Len(document) :
        (e \notin highlightClass /\ e \in highlightClass') => highlightClass' = {e}

ExchangeLeaves ==
    UNCHANGED <<link, links, document, called, result, sectionCache, recorded,
                workerVars, tooltipVars, highlightVars, settings, overlayMode,
                overlayElements, badgeContainers>>

\* saveSettings() of the popup after a toggle changed
Popup_saveSettings ==
    \E s \in SettingsChoices :
        /\ updates < MaxUpdates
        /\ updates' = updates + 1
        /\ requests' = Append(requests, [type |-> "UPDATE_SETTINGS", settings |-> s])
        /\ UNCHANGED <<storage, storageOps, broadcasts, activeTab, pageData, getSettings>>
        /\ ExchangeLeaves

\* the worker's listener gets the GET_SETTINGS message of the content script
Background_onMessage_GET_SETTINGS ==
    /\ getSettings.at = "request"
    /\ getSettings' = [getSettings EXCEPT !.at = "storage"]
    /\ storageOps' = Append(storageOps, [op |-> "get"])
    /\ UNCHANGED <<storage, requests, broadcasts, updates, activeTab, pageData>>
    /\ ExchangeLeaves

\* the worker's listener gets an UPDATE_SETTINGS message
Background_onMessage_UPDATE_SETTINGS ==
    /\ requests # <<>>
    /\ requests' = Tail(requests)
    /\ storageOps' = Append(storageOps, [op |-> "set", settings |-> Head(requests).settings])
    /\ UNCHANGED <<storage, broadcasts, updates, activeTab, pageData, getSettings>>
    /\ ExchangeLeaves

\* storage.get completes: the worker answers with data.settings ||
\* DEFAULT_SETTINGS
Storage_getCompletes ==
    /\ storageOps # <<>>
    /\ Head(storageOps).op = "get"
    /\ storageOps' = Tail(storageOps)
    /\ getSettings' = [at |-> "response",
                       settings |-> IF storage = null THEN DEFAULT_SETTINGS ELSE storage]
    /\ UNCHANGED <<storage, requests, broadcasts, updates, activeTab, pageData>>
    /\ ExchangeLeaves

\* storage.set completes: the worker sends SETTINGS_UPDATED to the tabs
Storage_setCompletes ==
    /\ storageOps # <<>>
    /\ Head(storageOps).op = "set"
    /\ storageOps' = Tail(storageOps)
    /\ storage' = Head(storageOps).settings
    /\ broadcasts' = Append(broadcasts, [type |-> "SETTINGS_UPDATED",
                                         settings |-> Head(storageOps).settings])
    /\ UNCHANGED <<requests, updates, activeTab, pageData, getSettings>>
    /\ ExchangeLeaves

\* the oldest SETTINGS_UPDATED message reaches the content script
ContentScript_onSettingsUpdated ==
    /\ broadcasts # <<>>
    /\ handleMessage(Head(broadcasts))
    /\ broadcasts' = Tail(broadcasts)
    /\ UNCHANGED <<storage, storageOps, requests, updates, activeTab, pageData>>

\* an extension page sends GET_PAGE_DATA to the worker
Runtime_sendGetPageData ==
    /\ pageData.at = "idle"
    /\ pageData' = [pageData EXCEPT !.at = "request"]
    /\ UNCHANGED <<storage, storageOps, requests, broadcasts, updates, activeTab, getSettings>>
    /\ ExchangeLeaves

\* the worker's listener gets the GET_PAGE_DATA message and queries the tabs
Background_onMessage_GET_PAGE_DATA ==
    /\ pageData.at = "request"
    /\ pageData' = [pageData EXCEPT !.at = "query"]
    /\ UNCHANGED <<storage, storageOps, requests, broadcasts, updates, activeTab, getSettings>>
    /\ ExchangeLeaves

\* the callback of tabs.query: without an active tab it does nothing; a tab
\* without content script rejects the message and the catch answers; else
\* COLLECT_PAGE_DATA is on its way to the content script
Background_tabsQueried ==
    /\ pageData.at = "query"
    /\ pageData' =
           IF activeTab = "none" THEN [pageData EXCEPT !.at = "over"]
           ELSE IF activeTab = "withoutScript"
           THEN [at |-> "over",
                 responses |-> Append(pageData.responses,
                                      [error |-> "Unable to collect data"])]
           ELSE [pageData EXCEPT !.at = "collect"]
    /\ UNCHANGED <<storage, storageOps, requests, broadcasts, updates, activeTab, getSettings>>
    /\ ExchangeLeaves

\* COLLECT_PAGE_DATA reaches the content script of the active tab; what it
\* answers the worker passes on to the sender of GET_PAGE_DATA
ContentScript_onCollectPageData ==
    /\ pageData.at = "collect"
    /\ handleMessage([type |-> "COLLECT_PAGE_DATA"])
    /\ pageData' = [at |-> "over", responses |-> pageData.responses \o result'.responses]
    /\ UNCHANGED <<storage, storageOps, requests, broadcasts, updates, activeTab>>

\* ------------------------------------------------------------------------
\* The exchange specification: a content script whose init has just sent
\* GET_SETTINGS, a popup that saves settings, a request for the page data
\* ------------------------------------------------------------------------

ExchangePage ==
    << Anchor(<<"/", "p", "?", "utm_source", "=", "x", "#", "missing">>),
       Anchor(<<"#">> \o LoginModalId) >>

InitExchange ==
    /\ links = ExchangePage
    /\ link = links[1]
    /\ document = ScanDocument
    /\ called = "none"
    /\ result = null
    /\ sectionCache = EmptyMap
    /\ recorded = EmptyMap
    /\ WorkerIdle
    /\ TooltipIdle
    /\ HighlightIdle
    /\ settings = DEFAULT_SETTINGS
    /\ overlayMode = FALSE
    /\ overlayElements = <<>>
    /\ badgeContainers = EmptyMap
    /\ getSettings = [at |-> "request", settings |-> DEFAULT_SETTINGS]
    /\ storage \in SettingsChoices
    /\ storageOps = <<>>
    /\ requests = <<>>
    /\ broadcasts = <<>>
    /\ updates = 0
    /\ activeTab \in {"none", "withScript", "withoutScript"}
    /\ pageData = [at |-> "idle", responses |-> <<>>]

NextExchange ==
    \/ Popup_saveSettings
    \/ Background_onMessage_GET_SETTINGS
    \/ Background_onMessage_UPDATE_SETTINGS
    \/ Storage_getCompletes
    \/ Storage_setCompletes
    \/ ContentScript_onSettingsUpdated
    \/ ContentScript_settingsLoaded
    \/ Runtime_sendGetPageData
    \/ Background_onMessage_GET_PAGE_DATA
    \/ Background_tabsQueried
    \/ ContentScript_onCollectPageData
    \/ Return

SpecExchange == InitExchange /\ [][NextExchange]_vars

\* ------------------------------------------------------------------------
\* Claims about the exchange of settings and page data
\* ------------------------------------------------------------------------

\* every request, storage call, response and broadcast has been delivered
AllDelivered ==
    /\ getSettings.at = "done"
    /\ requests = <<>>
    /\ storageOps = <<>>
    /\ broadcasts = <<>>

\* C24: once all requests, storage writes and SETTINGS_UPDATED broadcasts
\* have been delivered, the content script's settings equal the settings
\* last written to storage; a GET_SETTINGS response computed before an update
\* never overwrites the settings of a later SETTINGS_UPDATED message.
C24_SettingsConverge ==
    AllDelivered => settings = storage

\* C25: every GET_PAGE_DATA request the worker handled has exactly one
\* response, the content script's collected data or {error: 'Unable to
\* collect data'}, once nothing of the request is pending, whether or not an
\* active tab exists and whether or not it has a content script.
C25_PageDataAnsweredOnce ==
    pageData.at = "over" =>
        /\ Len(pageData.responses) = 1
        /\ \/ pageData.responses[1] = [error |-> "Unable to collect data"]
           \/ pageData.responses[1] = collectPageData(links, document, EmptyMap).data

====
